---- MODULE Spec2Model ----
(***************************************************************************)
(* Breakout backtesting and the daily breakout lists of d25037/trading23.  *)
(*                                                                         *)
(* Spec is one call of StocksBacktest::new on a bar file.  SpecDay is the  *)
(* loop of StocksDaytradingList::push_2 / StocksWindowList::push over the  *)
(* daily file of one stock, followed by the t-test of one bucket.          *)
(* SpecDriver is backtesting_to_json over a roster of two instruments,     *)
(* SpecDrivers is SpecDay and SpecDriver side by side, and SpecTTest is    *)
(* TTestResult::new on one vector of samples followed by its Display.      *)
(* SpecAsync is async_exec over the rows of a roster on two workers,       *)
(* SpecTopix the split of the TOPIX days into regimes, and SpecFetch the   *)
(* runs of fetch_nikkei225_db on one table, each starting with first_fetch.*)
(*                                                                         *)
(* Prices are integers.  An f64 that results from a division is kept as an *)
(* exact fraction n/d (d > 0) or as one of NaN, +inf, -inf, with the IEEE  *)
(* rules for comparison, f64::min / f64::max and division by zero.         *)
(* Rounding error of the binary representation is not modelled.            *)
(***************************************************************************)
EXTENDS Integers, Sequences, FiniteSets, TLC

\* ------------------------------------------------------------------ bounds
MaxPrice == 3
MaxDay == 1

Prices == 1..MaxPrice

\* ------------------------------------------------------- program constants
Lookback60 == 60
Prev19 == 19
FutureLen20 == 81
FutureLen10 == 71
MinBarsAfterDay == 82
Day5 == 4
Day10 == 9
Day20 == 19
Ratio38 == 38
Ratio50 == 50
Ratio62 == 62
MinPosition == 59

\* ---------------------------------------------------------------- f64
Fin(n, d) == [k |-> "fin", n |-> n, d |-> d]
NaN == [k |-> "nan", n |-> 0, d |-> 1]
PInf == [k |-> "pinf", n |-> 0, d |-> 1]
NInf == [k |-> "ninf", n |-> 0, d |-> 1]

IsNaN(a) == a.k = "nan"

\* a < b on f64: false as soon as one side is NaN
Lt(a, b) ==
    IF IsNaN(a) \/ IsNaN(b) THEN FALSE
    ELSE IF a.k = "ninf" THEN b.k # "ninf"
    ELSE IF a.k = "pinf" THEN FALSE
    ELSE IF b.k = "ninf" THEN FALSE
    ELSE IF b.k = "pinf" THEN TRUE
    ELSE a.n * b.d < b.n * a.d

Gt(a, b) == Lt(b, a)

\* a >= b on f64
Ge(a, b) ==
    IF IsNaN(a) \/ IsNaN(b) THEN FALSE ELSE ~Lt(a, b)

\* f64::min / f64::max: a NaN operand is ignored
FMin(a, b) == IF IsNaN(a) THEN b ELSE IF IsNaN(b) THEN a ELSE IF Lt(b, a) THEN b ELSE a
FMax(a, b) == IF IsNaN(a) THEN b ELSE IF IsNaN(b) THEN a ELSE IF Lt(a, b) THEN b ELSE a

\* The elements of s that f64::min / f64::max do not ignore
NotNaN(s) == {s[i] : i \in DOMAIN s} \ {NaN}

\* s.fold(acc, f64::min): f64::min is commutative and associative and ignores
\* a NaN operand, so the fold is the least of acc and the elements that are
\* not NaN, and NaN if there is none.
FoldMin(acc, s) ==
    LET vals == NotNaN(s) \cup ({acc} \ {NaN})
    IN  IF vals = {} THEN NaN ELSE CHOOSE m \in vals : \A v \in vals : ~Lt(v, m)

\* s.fold(acc, f64::max)
FoldMax(acc, s) ==
    LET vals == NotNaN(s) \cup ({acc} \ {NaN})
    IN  IF vals = {} THEN NaN ELSE CHOOSE m \in vals : \A v \in vals : ~Lt(m, v)

\* x / y for a finite x = xn/xd and a finite y = yn/yd (xd, yd > 0)
FDiv(x, y) ==
    IF y.n = 0 THEN (IF x.n = 0 THEN NaN ELSE IF x.n > 0 THEN PInf ELSE NInf)
    ELSE IF y.n > 0 THEN Fin(x.n * y.d, x.d * y.n)
    ELSE Fin(-(x.n * y.d), x.d * (-y.n))

FNeg(a) ==
    IF a.k = "fin" THEN Fin(-a.n, a.d)
    ELSE IF a.k = "pinf" THEN NInf
    ELSE IF a.k = "ninf" THEN PInf
    ELSE NaN

\* round(a / b) for b > 0, halves away from zero (f64::round)
RoundDiv(a, b) ==
    IF a >= 0 THEN (2 * a + b) \div (2 * b) ELSE -((2 * (-a) + b) \div (2 * b))

\* trunc(a / b) for b > 0 (f64::trunc)
TruncDiv(a, b) == IF a >= 0 THEN a \div b ELSE -((-a) \div b)

\* (x * 100.0).round() / 100.0
Round2(x) == IF x.k = "fin" THEN Fin(RoundDiv(x.n * 100, x.d), 100) ELSE x

\* (x * 1000.0).trunc() / 1000.0
Trunc3(x) == IF x.k = "fin" THEN Fin(TruncDiv(x.n * 1000, x.d), 1000) ELSE x

\* the literals -1.0 and 1.0, written in hundredths like every rounded outcome
MinusOne == Fin(-100, 100)
PlusOne == Fin(100, 100)

\* ---------------------------------------------------------------- Ohlc
Ohlc(date, open, high, low, close) ==
    [date |-> date, open |-> open, high |-> high, low |-> low, close |-> close]

\* raw_ohlc[a..b] of Rust (0-based, b exclusive)
Slice(s, a, b) == SubSeq(s, a + 1, b)

Highs(s) == [i \in 1..Len(s) |-> Fin(s[i].high, 1)]
Lows(s) == [i \in 1..Len(s) |-> Fin(s[i].low, 1)]

\* The Bar invariant of the data model: low <= open, close <= high
BarInvariant(b) ==
    /\ b.low <= b.open /\ b.open <= b.high
    /\ b.low <= b.close /\ b.close <= b.high

\* ------------------------------------------------ BacktestAnalyzer::new
\* Classify with >= in place of > (a close equal to the prior high breaks out)
Classify_AtHigh(last_close, high, low) ==
    IF Ge(Fin(last_close, 1), high) THEN "Long"
    ELSE IF Lt(Fin(last_close, 1), low) THEN "Short"
    ELSE "Control"

\* match (last_close > high, last_close < low)
Classify(last_close, high, low) ==
    IF Gt(Fin(last_close, 1), high) THEN "Long"
    ELSE IF Lt(Fin(last_close, 1), low) THEN "Short"
    ELSE "Control"

\* stop_loss_range_38 / _50 / _62; high and low are the folds over prev_19,
\* finite because prev_19 holds 19 finite bars.  The value is ratio/100 times
\* the range, kept as a fraction over 100.
StopLossRange(long_or_short_or_control, last_close, high, low, ratio) ==
    IF long_or_short_or_control = "Long" THEN Fin((last_close - low.n) * ratio, 100)
    ELSE IF long_or_short_or_control = "Short" THEN Fin((high.n - last_close) * ratio, 100)
    ELSE Fin((high.n - low.n) * ratio, 100)

\* day_x_close reading the bar after future_ohlc[day_x]
day_x_close_NextBar(day_x, future_ohlc, long_or_short_or_control, stop_loss_range) ==
    LET result == FDiv(Fin(future_ohlc[day_x + 2].close - future_ohlc[1].open, 1),
                       stop_loss_range)
        result_rounded == Round2(result)
    IN  IF long_or_short_or_control \in {"Long", "Control"} THEN result_rounded
        ELSE FNeg(result_rounded)

\* fn day_x_close
day_x_close(day_x, future_ohlc, long_or_short_or_control, stop_loss_range) ==
    LET result == FDiv(Fin(future_ohlc[day_x + 1].close - future_ohlc[1].open, 1),
                       stop_loss_range)
        result_rounded == Round2(result)
    IN  IF long_or_short_or_control \in {"Long", "Control"} THEN result_rounded
        ELSE FNeg(result_rounded)

\* the .map(...) of the stop check: excursion of every bar of the slice
LowExcursions(future_ohlc, stop_loss_range) ==
    [i \in 1..Len(future_ohlc) |->
        FDiv(Fin(future_ohlc[i].low - future_ohlc[1].open, 1), stop_loss_range)]

HighExcursions(future_ohlc, stop_loss_range) ==
    [i \in 1..Len(future_ohlc) |->
        FDiv(Fin(future_ohlc[i].high - future_ohlc[1].open, 1), stop_loss_range)]

\* the excursion of every bar's close
CloseExcursions(future_ohlc, stop_loss_range) ==
    [i \in 1..Len(future_ohlc) |->
        FDiv(Fin(future_ohlc[i].close - future_ohlc[1].open, 1), stop_loss_range)]

\* day_x_with_stop_loss with the stop tested against the closes, not the
\* lows (Long, Control) or highs (Short)
day_x_with_stop_loss_OnClose(day_x, future_ohlc, stop_loss_range, long_or_short_or_control) ==
    IF long_or_short_or_control \in {"Long", "Control"}
    THEN IF Lt(FoldMin(NaN, CloseExcursions(future_ohlc, stop_loss_range)), MinusOne)
         THEN MinusOne
         ELSE day_x_close(day_x, future_ohlc, long_or_short_or_control, stop_loss_range)
    ELSE IF Gt(FoldMax(NaN, CloseExcursions(future_ohlc, stop_loss_range)), PlusOne)
         THEN MinusOne
         ELSE day_x_close(day_x, future_ohlc, long_or_short_or_control, stop_loss_range)

\* day_x_with_stop_loss with the stop tested on the bars up to day_x only
day_x_with_stop_loss_UpToDay(day_x, future_ohlc, stop_loss_range, long_or_short_or_control) ==
    IF long_or_short_or_control \in {"Long", "Control"}
    THEN IF Lt(FoldMin(NaN, SubSeq(LowExcursions(future_ohlc, stop_loss_range), 1, day_x + 1)),
               MinusOne)
         THEN MinusOne
         ELSE day_x_close(day_x, future_ohlc, long_or_short_or_control, stop_loss_range)
    ELSE IF Gt(FoldMax(NaN, SubSeq(HighExcursions(future_ohlc, stop_loss_range), 1, day_x + 1)),
               PlusOne)
         THEN MinusOne
         ELSE day_x_close(day_x, future_ohlc, long_or_short_or_control, stop_loss_range)

\* fn day_x_with_stop_loss
day_x_with_stop_loss(day_x, future_ohlc, stop_loss_range, long_or_short_or_control) ==
    IF long_or_short_or_control \in {"Long", "Control"}
    THEN IF Lt(FoldMin(NaN, LowExcursions(future_ohlc, stop_loss_range)), MinusOne)
         THEN MinusOne
         ELSE day_x_close(day_x, future_ohlc, long_or_short_or_control, stop_loss_range)
    ELSE IF Gt(FoldMax(NaN, HighExcursions(future_ohlc, stop_loss_range)), PlusOne)
         THEN MinusOne
         ELSE day_x_close(day_x, future_ohlc, long_or_short_or_control, stop_loss_range)

\* .map(|ohlc| ohlc.get_high() - ohlc.get_low()).sum() over s[i..]
RECURSIVE SumRangeFrom(_, _)
SumRangeFrom(s, i) ==
    IF i > Len(s) THEN 0 ELSE (s[i].high - s[i].low) + SumRangeFrom(s, i + 1)

SumRange(s) == SumRangeFrom(s, 1)

\* (average_diff / (highest_high - lowest_low) * 1000.0).trunc() / 1000.0
StandardizedDiff(ohlc_60) ==
    LET highest_high == FoldMax(NaN, Highs(ohlc_60))
        lowest_low == FoldMin(NaN, Lows(ohlc_60))
        average_diff == Fin(SumRange(ohlc_60), Len(ohlc_60))
    IN  Trunc3(FDiv(average_diff, Fin(highest_high.n - lowest_low.n, 1)))

\* the copy with the open overwritten and the high and the low left as read
GapAdjusted_OpenOnly(testing_ohlc_60) ==
    [i \in 1..Len(testing_ohlc_60) |->
        IF i = 1 THEN testing_ohlc_60[i]
        ELSE [testing_ohlc_60[i] EXCEPT !.open = testing_ohlc_60[i - 1].close]]

\* let mut ohlc_vec = testing_ohlc_60.to_vec(); for i in 0..len - 1 { .. }:
\* the copy whose bars open at the close of the bar before them, with the
\* high and the low widened to hold that open.  BacktestAnalyzer::new builds
\* it after standardized_diff and reads it nowhere.
GapAdjusted(testing_ohlc_60) ==
    [i \in 1..Len(testing_ohlc_60) |->
        IF i = 1 THEN testing_ohlc_60[i]
        ELSE [testing_ohlc_60[i] EXCEPT
                 !.open = testing_ohlc_60[i - 1].close,
                 !.high = IF testing_ohlc_60[i - 1].close > @
                          THEN testing_ohlc_60[i - 1].close ELSE @,
                 !.low = IF testing_ohlc_60[i - 1].close < @
                         THEN testing_ohlc_60[i - 1].close ELSE @]]

\* The values BacktestAnalyzer::new computes before the simulation: the anchor
\* close, the folds over prev_19, the direction and the three stop distances.
LocalsOf(last_close, high, low, dir) ==
    [last_close |-> last_close, high |-> high, low |-> low,
     long_or_short_or_control |-> dir,
     stop_loss_range_38 |-> StopLossRange(dir, last_close, high, low, Ratio38),
     stop_loss_range_50 |-> StopLossRange(dir, last_close, high, low, Ratio50),
     stop_loss_range_62 |-> StopLossRange(dir, last_close, high, low, Ratio62)]

Breakout(last_close, high, low) ==
    LocalsOf(last_close, high, low, Classify(last_close, high, low))

\* SplitAt19 with the extremes taken over all 20 bars, the anchor bar included
SplitAt19_WithAnchor(testing_ohlc_20) ==
    Breakout(testing_ohlc_20[Prev19 + 1].close,
             FoldMax(NaN, Highs(testing_ohlc_20)),
             FoldMin(NaN, Lows(testing_ohlc_20)))

\* let (prev_19, last) = testing_ohlc_20.split_at(19); ...
SplitAt19(testing_ohlc_20) ==
    Breakout(testing_ohlc_20[Prev19 + 1].close,
             FoldMax(NaN, Highs(SubSeq(testing_ohlc_20, 1, Prev19))),
             FoldMin(NaN, Lows(SubSeq(testing_ohlc_20, 1, Prev19))))

AnalyzerLocals(raw_ohlc, day) == SplitAt19(Slice(raw_ohlc, day + 40, day + Lookback60))

\* Ok(Self { .. }) from the slices and the values above
AnalyzerRecord(testing_ohlc_60, future_ohlc_20, future_ohlc_10, l) ==
    [date |-> testing_ohlc_60[Lookback60].date,
     standardized_diff |-> StandardizedDiff(testing_ohlc_60),
     day5_with_stop_loss_38 |->
         day_x_with_stop_loss(Day5, future_ohlc_10, l.stop_loss_range_38,
                              l.long_or_short_or_control),
     day5_with_stop_loss_50 |->
         day_x_with_stop_loss(Day5, future_ohlc_10, l.stop_loss_range_50,
                              l.long_or_short_or_control),
     day5_with_stop_loss_62 |->
         day_x_with_stop_loss(Day5, future_ohlc_10, l.stop_loss_range_62,
                              l.long_or_short_or_control),
     day10_with_stop_loss_38 |->
         day_x_with_stop_loss(Day10, future_ohlc_10, l.stop_loss_range_38,
                              l.long_or_short_or_control),
     day10_with_stop_loss_50 |->
         day_x_with_stop_loss(Day10, future_ohlc_10, l.stop_loss_range_50,
                              l.long_or_short_or_control),
     day10_with_stop_loss_62 |->
         day_x_with_stop_loss(Day10, future_ohlc_10, l.stop_loss_range_62,
                              l.long_or_short_or_control),
     day20_with_stop_loss_38 |->
         day_x_with_stop_loss(Day20, future_ohlc_20, l.stop_loss_range_38,
                              l.long_or_short_or_control),
     day20_with_stop_loss_50 |->
         day_x_with_stop_loss(Day20, future_ohlc_20, l.stop_loss_range_50,
                              l.long_or_short_or_control),
     day20_with_stop_loss_62 |->
         day_x_with_stop_loss(Day20, future_ohlc_20, l.stop_loss_range_62,
                              l.long_or_short_or_control),
     long_or_short_or_control |-> l.long_or_short_or_control]

\* BacktestAnalyzer::new(raw_ohlc, day) once the values above are known
BacktestAnalyzerWith(raw_ohlc, d, l) ==
    AnalyzerRecord(Slice(raw_ohlc, d, d + Lookback60),
                   Slice(raw_ohlc, d + Lookback60, d + FutureLen20),
                   Slice(raw_ohlc, d + Lookback60, d + FutureLen10),
                   l)

\* BacktestAnalyzer::new(raw_ohlc, day): the record it returns
BacktestAnalyzerNew(raw_ohlc, d) ==
    BacktestAnalyzerWith(raw_ohlc, d, AnalyzerLocals(raw_ohlc, d))

NoRecord == [date |-> -1]

NoLocals == [last_close |-> -1]

\* ------------------------------------------------------------ OhlcPremium
\* A bar of the daily file of one stock.  The code of the stock is the same on
\* every bar of a file and is left out.
OhlcPremium(date, open, high, low, close, morning_close, afternoon_open) ==
    [date |-> date, open |-> open, high |-> high, low |-> low, close |-> close,
     morning_close |-> morning_close, afternoon_open |-> afternoon_open]

\* Option::None for an Option<f64>; Some(x) is x itself
None == [k |-> "None", n |-> 0, d |-> 1]

\* the literal 0.0 of unwrap_or(0.0), in hundredths like the results
Zero == Fin(0, 100)

\* opt.unwrap_or(default)
UnwrapOr(opt, default) == IF opt = None THEN default ELSE opt

\* the None of ohlc_vec.iter().position(..)
NoPosition == -1

\* the None of an Option<String> that holds a date
NoDate == -1

\* ohlc_vec.iter().position(|ohlc| ohlc.get_date() == date), 0-based
Position(ohlc_vec, date) ==
    LET hits == {i \in 1..Len(ohlc_vec) : ohlc_vec[i].date = date}
    IN  IF hits = {} THEN NoPosition
        ELSE (CHOOSE i \in hits : \A j \in hits : i <= j) - 1

\* ohlc_vec[a..=b] of Rust (0-based, b inclusive)
SliceIncl(s, a, b) == SubSeq(s, a + 1, b + 1)

\* the history guard asking for 60 bars before the anchor bar
HasHistory_Sixty(position) == ~(position < MinPosition + 1)

\* if position < 59 { return Err(MyError::OutOfRange) }
HasHistory(position) == ~(position < MinPosition)

\* (x * 10.0).round() / 10.0
Round1(x) == IF x.k = "fin" THEN Fin(RoundDiv(x.n * 10, x.d), 10) ELSE x

Sign(x) ==
    IF x.k = "pinf" THEN 1
    ELSE IF x.k = "ninf" THEN -1
    ELSE IF x.n > 0 THEN 1 ELSE IF x.n < 0 THEN -1 ELSE 0

\* x * y on f64
FMul(x, y) ==
    IF IsNaN(x) \/ IsNaN(y) THEN NaN
    ELSE IF x.k = "fin" /\ y.k = "fin" THEN Fin(x.n * y.n, x.d * y.d)
    ELSE IF Sign(x) * Sign(y) = 0 THEN NaN
    ELSE IF Sign(x) * Sign(y) > 0 THEN PInf ELSE NInf

I32Max == 2147483647
I32Min == -I32Max - 1

\* x as i32: truncates, saturates at the ends of i32, NaN becomes 0
AsI32(x) ==
    IF IsNaN(x) THEN 0
    ELSE IF x.k = "pinf" THEN I32Max
    ELSE IF x.k = "ninf" THEN I32Min
    ELSE IF TruncDiv(x.n, x.d) > I32Max THEN I32Max
    ELSE IF TruncDiv(x.n, x.d) < I32Min THEN I32Min
    ELSE TruncDiv(x.n, x.d)

\* the fold of f64::max over the highs and of f64::min over the lows
HighestHigh(s) == FoldMax(NaN, Highs(s))
LowestLow(s) == FoldMin(NaN, Lows(s))

\* let status = match (last_close > prev_19_high) || (last_close < prev_19_low)
StatusOf(last_high, last_low, last_close, prev_19_high, prev_19_low) ==
    IF Gt(Fin(last_close, 1), prev_19_high) \/ Lt(Fin(last_close, 1), prev_19_low)
    THEN IF Gt(Fin(last_close, 1), prev_19_high) THEN "BreakoutResistance"
         ELSE "BreakoutSupport"
    ELSE IF Gt(Fin(last_high, 1), prev_19_high) THEN "FailedBreakoutResistance"
         ELSE IF Lt(Fin(last_low, 1), prev_19_low) THEN "FailedBreakoutSupport"
         ELSE "NoChange"

\* let atr = sum(high - low) / ohlc_5.len(); (atr * 10.0).round() / 10.0
Atr(ohlc_5) == Round1(Fin(SumRange(ohlc_5), Len(ohlc_5)))

\* let unit = unit / atr; (unit as i32, (unit * last_close) as i32)
UnitOf(unit, atr) == AsI32(FDiv(Fin(unit, 1), atr))
RequiredAmount(unit, atr, last_close) ==
    AsI32(FMul(FDiv(Fin(unit, 1), atr), Fin(last_close, 1)))

\* match ohlc_vec.len() > position + 1
HasNextBar(ohlc_vec, position) == Len(ohlc_vec) > position + 1

\* ohlc_vec[position + 1]
NextBar(ohlc_vec, position) == ohlc_vec[position + 2]

\* Some(((price - open) / atr * 100.0).round() / 100.0) on the next bar
ResultMorningClose(ohlc_vec, position, atr) ==
    IF HasNextBar(ohlc_vec, position)
    THEN Round2(FDiv(Fin(NextBar(ohlc_vec, position).morning_close
                         - NextBar(ohlc_vec, position).open, 1), atr))
    ELSE None

ResultAfternoonOpen(ohlc_vec, position, atr) ==
    IF HasNextBar(ohlc_vec, position)
    THEN Round2(FDiv(Fin(NextBar(ohlc_vec, position).afternoon_open
                         - NextBar(ohlc_vec, position).open, 1), atr))
    ELSE None

ResultClose(ohlc_vec, position, atr) ==
    IF HasNextBar(ohlc_vec, position)
    THEN Round2(FDiv(Fin(NextBar(ohlc_vec, position).close
                         - NextBar(ohlc_vec, position).open, 1), atr))
    ELSE None

\* mean_price = (morning_close + open) / 2.0; (mean_price - open) / atr
ResultPushClose(ohlc_vec, position, atr) ==
    IF HasNextBar(ohlc_vec, position)
    THEN Round2(FDiv(Fin(NextBar(ohlc_vec, position).morning_close
                         + NextBar(ohlc_vec, position).open
                         - 2 * NextBar(ohlc_vec, position).open, 2), atr))
    ELSE None

\* ------------------------------------------- StocksDaytrading::from_vec
\* The record from_vec returns for the bar at `position` (>= 59).  The code
\* and the name of the stock are passed through and left out.
StocksDaytradingAt(ohlc_vec, unit, position) ==
    LET ohlc_5 == SliceIncl(ohlc_vec, position - 4, position)
        ohlc_20 == SliceIncl(ohlc_vec, position - 19, position)
        ohlc_60 == SliceIncl(ohlc_vec, position - 59, position)
        prev_19 == SubSeq(ohlc_20, 1, 19)
        last == ohlc_20[20]
        atr == Atr(ohlc_5)
    IN  [status |-> StatusOf(last.high, last.low, last.close,
                             HighestHigh(prev_19), LowestLow(prev_19)),
         atr |-> atr,
         unit |-> UnitOf(unit, atr),
         required_amount |-> RequiredAmount(unit, atr, last.close),
         standardized_diff |-> StandardizedDiff(ohlc_60),
         result_push_close |-> ResultPushClose(ohlc_vec, position, atr),
         result_morning_close |-> ResultMorningClose(ohlc_vec, position, atr),
         result_afternoon_open |-> ResultAfternoonOpen(ohlc_vec, position, atr),
         result_close |-> ResultClose(ohlc_vec, position, atr),
         analyzed_at |-> ohlc_vec[position + 1].date]

\* ----------------------------------------------- StocksWindow::from_vec
\* (x / (prev_19_high - prev_19_low) * 100.0).round() / 100.0
MoveOver(x, prev_19_high, prev_19_low) ==
    Round2(FDiv(Fin(x, 1), Fin(prev_19_high.n - prev_19_low.n, 1)))

\* ((value - lowest_low) / step).floor() as usize, then .min(4), with
\* step = range / 5.0; for range = 0 the quotient is NaN and the cast gives 0
RangeIndex(value, lowest_low, range) ==
    IF range = 0 THEN 0
    ELSE IF ((value - lowest_low) * 5) \div range < 4
         THEN ((value - lowest_low) * 5) \div range
         ELSE 4

\* if value >= lowest_low && value <= highest_high { ranges[index.min(4)] += 1 }
CountValue(ranges, value, lowest_low, highest_high) ==
    IF value >= lowest_low /\ value <= highest_high
    THEN [ranges EXCEPT ![RangeIndex(value, lowest_low, highest_high - lowest_low)] = @ + 1]
    ELSE ranges

\* for value in vec![open, high, low, close] { .. }
CountBar(ranges, ohlc, lowest_low, highest_high) ==
    CountValue(CountValue(CountValue(CountValue(ranges,
        ohlc.open, lowest_low, highest_high),
        ohlc.high, lowest_low, highest_high),
        ohlc.low, lowest_low, highest_high),
        ohlc.close, lowest_low, highest_high)

\* the counts of two runs of bars, added
AddRanges(x, y) == [j \in 0..4 |-> x[j] + y[j]]

\* for ohlc in ohlc_60 { .. } over the bars ohlc_60[a..b]: the counts of a run
\* of bars are the counts of its two halves, added
RECURSIVE RangesOver(_, _, _, _, _)
RangesOver(ohlc_60, a, b, lowest_low, highest_high) ==
    IF a = b THEN CountBar([j \in 0..4 |-> 0], ohlc_60[a], lowest_low, highest_high)
    ELSE AddRanges(RangesOver(ohlc_60, a, (a + b) \div 2, lowest_low, highest_high),
                   RangesOver(ohlc_60, (a + b) \div 2 + 1, b, lowest_low, highest_high))

\* let mut ranges = [0; 5]; for ohlc in ohlc_60 { .. }
Ranges(ohlc_60, lowest_low, highest_high) ==
    RangesOver(ohlc_60, 1, Len(ohlc_60), lowest_low, highest_high)

\* ranges.iter().enumerate().max_by_key(|&(_, count)| count): the last maximum
MaxRangeIndex(ranges) ==
    CHOOSE j \in 0..4 :
        \A k \in 0..4 : ranges[k] < ranges[j] \/ (ranges[k] = ranges[j] /\ k <= j)

\* ((lowest_low + step * index) * 10.0).round() / 10.0 with step = range / 5.0
BoundAt(lowest_low, range, index) == Round1(Fin(5 * lowest_low + range * index, 5))

\* The record from_vec returns for the bar at `position` (>= 59)
StocksWindowAt(ohlc_vec, unit, position) ==
    LET ohlc_5 == SliceIncl(ohlc_vec, position - 4, position)
        ohlc_20 == SliceIncl(ohlc_vec, position - 19, position)
        ohlc_60 == SliceIncl(ohlc_vec, position - 59, position)
        prev_19 == SubSeq(ohlc_20, 1, 19)
        last_close == ohlc_20[20].close
        last2_close == prev_19[19].close
        prev_19_high == HighestHigh(prev_19)
        prev_19_low == LowestLow(prev_19)
        atr == Atr(ohlc_5)
        highest_high == HighestHigh(ohlc_60).n
        lowest_low == LowestLow(ohlc_60).n
        max_range_index == MaxRangeIndex(Ranges(ohlc_60, lowest_low, highest_high))
    IN  [atr |-> atr,
         unit |-> UnitOf(unit, atr),
         required_amount |-> RequiredAmount(unit, atr, last_close),
         latest_move |-> MoveOver(last_close - last2_close, prev_19_high, prev_19_low),
         standardized_diff |-> StandardizedDiff(ohlc_60),
         current_price |-> ohlc_vec[position + 1].close,
         lower_bound |-> BoundAt(lowest_low, highest_high - lowest_low, max_range_index),
         upper_bound |-> BoundAt(lowest_low, highest_high - lowest_low, max_range_index + 1),
         result_morning_close |-> ResultMorningClose(ohlc_vec, position, atr),
         result_afternoon_open |-> ResultAfternoonOpen(ohlc_vec, position, atr),
         result_close |-> ResultClose(ohlc_vec, position, atr),
         nextday_morning_close |->
             IF HasNextBar(ohlc_vec, position)
             THEN Fin(NextBar(ohlc_vec, position).morning_close, 1) ELSE None,
         morning_move |->
             IF HasNextBar(ohlc_vec, position)
             THEN MoveOver(NextBar(ohlc_vec, position).morning_close
                           - ohlc_vec[position + 1].close, prev_19_high, prev_19_low)
             ELSE None,
         analyzed_at |-> ohlc_vec[position + 1].date,
         result_at |->
             IF HasNextBar(ohlc_vec, position)
             THEN NextBar(ohlc_vec, position).date ELSE NoDate]

\* ------------------------------------ StocksDaytradingList::t_test
\* let limit = [(0.05, 0.09), (0.09, 0.12), (0.12, 0.16)], in thousandths
limit == {<<50, 90>>, <<90, 120>>, <<120, 160>>}

\* the .filter(..) of get_windows_related_result_2 for one status, one list of
\* dates of the TOPIX windows and one (lower_limit, upper_limit)
InBucket(stocks_daytrading, status, window_dates, lim) ==
    /\ stocks_daytrading.status = status
    /\ stocks_daytrading.analyzed_at \in window_dates
    /\ Ge(stocks_daytrading.standardized_diff, Fin(lim[1], 1000))
    /\ Lt(stocks_daytrading.standardized_diff, Fin(lim[2], 1000))

Bucket(data_, status, window_dates, lim) ==
    SelectSeq(data_, LAMBDA s : InBucket(s, status, window_dates, lim))

\* the three vectors t_test hands to TTestResult::new
MorningCloseSamples(list) ==
    [i \in 1..Len(list) |-> UnwrapOr(list[i].result_morning_close, Zero)]
AfternoonOpenSamples(list) ==
    [i \in 1..Len(list) |-> UnwrapOr(list[i].result_afternoon_open, Zero)]
CloseSamples(list) ==
    [i \in 1..Len(list) |-> UnwrapOr(list[i].result_close, Zero)]

\* let df = len - 1.0; StudentsT::new(0.0, 1.0, df).unwrap(): the constructor
\* refuses a freedom that is not positive, and the unwrap then panics
TTestPanics(samples) == Len(samples) - 1 <= 0

\* ------------------------------------------------------------ TTestResult
\* The samples are multiples of 0.1, written as their number of tenths.
MaxSamples == 3
SampleValues == {-5, 0, 1, 3}

RECURSIVE SumOf(_)
SumOf(xs) == IF xs = <<>> THEN 0 ELSE Head(xs) + SumOf(Tail(xs))

Squares(xs) == [i \in DOMAIN xs |-> xs[i] * xs[i]]

\* data.mean(): NaN for no sample
Mean(xs) == IF Len(xs) = 0 THEN NaN ELSE Fin(SumOf(xs), 10 * Len(xs))

\* data.variance(): the sample variance, NaN for fewer than two samples
Variance(xs) ==
    IF Len(xs) <= 1 THEN NaN
    ELSE Fin(Len(xs) * SumOf(Squares(xs)) - SumOf(xs) * SumOf(xs),
             100 * Len(xs) * (Len(xs) - 1))

Abs(x) == IF x.k = "fin" /\ x.n < 0 THEN Fin(-x.n, x.d) ELSE IF x.k = "ninf" THEN PInf ELSE x

RECURSIVE Gcd(_, _)
Gcd(a, b) == IF b = 0 THEN a ELSE Gcd(b, a % b)

\* the same value as a fraction in lowest terms
Lowest(x) ==
    IF x.k # "fin" THEN x
    ELSE IF x.n >= 0 THEN Fin(x.n \div Gcd(x.n, x.d), x.d \div Gcd(x.n, x.d))
    ELSE Fin(-((-x.n) \div Gcd(-x.n, x.d)), x.d \div Gcd(-x.n, x.d))

\* let t = mean / (variance / len).sqrt().  The square root is not rational:
\* a finite t is kept as t * |t| = mean * |mean| / (variance / len), which has
\* the sign of t and the square of t as its size.
TStatistic(mean, variance, len) ==
    IF IsNaN(mean) \/ IsNaN(variance) THEN NaN
    ELSE Lowest(FDiv(FMul(mean, Abs(mean)), Fin(variance.n, variance.d * len)))

\* let df = len - 1.0
Freedom(xs) == Len(xs) - 1

\* The values of t_distribution.cdf(t) the model draws from, in 1/10000: the
\* value is a function of t and df that the statistics library computes; the
\* model only keeps that it is 0.5 at t = 0, above it for t > 0, below it
\* for t < 0, and 0 and 1 for an infinite t.
CdfGrid == {0, 4, 444, 455, 464, 4996, 5000, 5004, 9536, 9545, 9556, 9996, 10000}

CdfValues(t) ==
    IF t.k = "pinf" THEN {Fin(10000, 10000)}
    ELSE IF t.k = "ninf" THEN {Fin(0, 10000)}
    ELSE IF t.n > 0 THEN {Fin(p, 10000) : p \in {q \in CdfGrid : q > 5000}}
    ELSE IF t.n < 0 THEN {Fin(p, 10000) : p \in {q \in CdfGrid : q < 5000}}
    ELSE {Fin(5000, 10000)}

\* (x * 1000.0).round() / 1000.0
Round3(x) == IF x.k = "fin" THEN Fin(RoundDiv(x.n * 1000, x.d), 1000) ELSE x

\* 1.0 - x
OneMinus(x) ==
    IF x.k = "fin" THEN Fin(x.d - x.n, x.d)
    ELSE IF x.k = "pinf" THEN NInf
    ELSE IF x.k = "ninf" THEN PInf
    ELSE NaN

\* the p-value read off the lower tail whatever the sign of the mean
PValue_LowerTail(mean, p_raw) == Round3(p_raw)

\* match mean >= 0.0 { true => 1.0 - round3(cdf(t)), false => round3(cdf(t)) }
PValue(mean, p_raw) ==
    IF Ge(mean, Zero) THEN OneMinus(Round3(p_raw)) ELSE Round3(p_raw)

\* Self { mean, p_value }
TTestResultOf(mean, p_raw) == [mean |-> Round3(mean), p_value |-> PValue(mean, p_raw)]

\* the level the displayed p-value is compared with: 0.05
Level == Fin(5, 100)

\* the flag of a line that compares the reported p-value itself
Significant_Reported(p_value) == Lt(p_value, Level)

\* let p_value = (self.get_p_value() * 100.0).round() / 100.0; p_value < 0.05
Significant(p_value) == Lt(Round2(p_value), Level)

\* impl Display for TTestResult: the mean, the p-value to two decimals and
\* whether "... sig. diff. (95%)" is written
Display(result) ==
    [mean |-> result.mean, p_value |-> Round2(result.p_value),
     sig |-> Significant(result.p_value)]

NoTTest == [mean |-> NaN, variance |-> NaN, t |-> NaN, df |-> 0, p_raw |-> NaN]
NoTTestResult == [mean |-> NaN, p_value |-> NaN]
NoLine == [mean |-> NaN, p_value |-> NaN, sig |-> FALSE]

\* ---------------------------------------------------------------- state
VARIABLES
    file,       \* the instrument's bar file, as the description of its bars
    day,        \* the offset StocksBacktest::new is called with
    pc,         \* "new" before the call, then "Ok" or "OutOfRange"
    backtest,   \* the BacktestAnalyzer of Ok(StocksBacktest), else NoRecord
    locals,     \* the values the call computed on the way, else NoLocals
    ohlc_file,  \* the daily file of a stock, as the description of its bars
    mode,       \* the list being built: "daytrading" or "window"
    loop_date,  \* the date of the loop of push_2 / push
    data,       \* StocksDaytradingList.data / StocksWindowList.data
    last_call,  \* the date, position and answer of the last from_vec
    dpc,        \* "push" in the loop, "loaded" after it, then "reported" or "panic"
    report,     \* the bucket t_test was called on and the samples it built
    nikkei225,  \* the roster of backtesting_to_json, as the state of each file
    row,        \* the row of the roster the outer loop is at, from 1
    step,       \* the offset the inner loop is at
    backtest_analyzer_vec, \* the records backtesting_to_json has collected
    bpc,        \* "loop" in backtesting_to_json, then "Ok", "Err" or "panic"
    t_data,     \* the vector TTestResult::new is called with, in tenths
    t_test,     \* the locals of TTestResult::new
    t_test_result, \* the TTestResult it returns
    shown,      \* what Display writes for it
    tpc,        \* "new" before the call, "built", "shown", or "panic"
    a_tasks,    \* async_exec: for each row, what its task meets and its state
    a_next,     \* the row the spawning / appending loop is at
    a_done,     \* the tasks in the order they completed
    a_list,     \* the stocks_daytrading_list async_exec builds
    apc,        \* "spawn", "join", "append", then "Ok", "Err" or "panic"
    topix_data, \* BacktestingTopixList.data, as the window_diff of each day
    topix_list, \* the TopixDailyWindowList / TopixDailyWindowList2 built from it
    xpc,        \* "new", then "median", "tertile" or "panic"
    f_requests, \* the requests one first_fetch has sent, with their answers
    fpc,        \* the request first_fetch is at, then "Ok" or "Err"
    stocks_ohlc, \* the rows of the table stocks_ohlc, in the order of insertion
    now,        \* the clock a run of fetch_nikkei225_db read
    trading_calender, \* the trading days first_fetch returned to the run
    i_back,     \* the number of days back the loop of the run is at
    visited,    \* the dates the run went through, with what it did at each
    runs,       \* the number of runs started so far
    npc         \* "first_fetch", "loop", then "Ok", "Err" or "panic"

btVars == <<file, day, pc, backtest, locals>>
dayVars == <<ohlc_file, mode, loop_date, data, last_call, dpc, report>>
driverVars == <<nikkei225, row, step, backtest_analyzer_vec, bpc>>
ttVars == <<t_data, t_test, t_test_result, shown, tpc>>
asyncVars == <<a_tasks, a_next, a_done, a_list, apc>>
baseVars == <<btVars, dayVars, driverVars, ttVars>>
topixVars == <<topix_data, topix_list, xpc>>
firstFetchVars == <<f_requests, fpc>>
dbVars == <<stocks_ohlc, now, trading_calender, i_back, visited, runs, npc>>
extVars == <<asyncVars, topixVars, firstFetchVars, dbVars>>
vars == <<baseVars, extVars>>

\* what the steps of one part of the program leave alone
notBacktest == <<dayVars, driverVars, ttVars, extVars>>
notDay == <<btVars, driverVars, ttVars, extVars>>
notDriver == <<btVars, dayVars, ttVars, extVars>>
notTTest == <<btVars, dayVars, driverVars, extVars>>
notAsync == <<baseVars, topixVars, firstFetchVars, dbVars>>
notTopix == <<baseVars, asyncVars, firstFetchVars, dbVars>>
notFetch == <<baseVars, asyncVars, topixVars>>

\* ---------------------------------------------------------------- inputs
\* A bar file is described by its length, the offset `off` of the first bar of
\* the 60-bar window it is built around, and the bars by their place in that
\* window: the history bars are (bh, bl) but for one (sh, sl) at offset hp,
\* the anchor bar (offset 59) is (al, ac, ah), the forward bars (offset 60 and
\* up) are flat at fo but for one (fl, fc, fh) at forward offset fp.
\* Dates are the bar's index in the file.
BarAt(f, i) ==
    LET rel == i - f.off
    IN  IF rel = f.hp THEN Ohlc(i, f.sl, f.sh, f.sl, f.sl)
        ELSE IF rel < 59 THEN Ohlc(i, f.bl, f.bh, f.bl, f.bl)
        ELSE IF rel = 59 THEN Ohlc(i, f.ac, f.ah, f.al, f.ac)
        ELSE IF rel = 60 + f.fp THEN Ohlc(i, f.fc, f.fh, f.fl, f.fc)
        ELSE Ohlc(i, f.fo, f.fo, f.fo, f.fo)

\* serde_json::from_str(&read_to_string(path)): the Vec<Ohlc> of the file
Load(f) == [j \in 1..f.len |-> BarAt(f, j - 1)]

\* Offsets (from `off`) of the one history bar that differs from the others:
\* the bar before the 20-bar window, its first bar and the bar before the anchor.
HistPos == {39, 40, 58}

\* Offsets (from the first forward bar) of the one forward bar that differs.
FwdPos == {0, 4, 5, 10, 11, 20}

FileLen == MaxDay + MinBarsAfterDay

\* The window starts at the first bar of the file or MaxDay bars into it
Offsets == {0, MaxDay}

\* Files that vary the history and the anchor bar; forward bars flat at ac
ClassifyFiles ==
    {[len |-> FileLen, off |-> d, bh |-> bh, bl |-> bl, hp |-> hp, sh |-> sh, sl |-> sl,
      al |-> al, ac |-> ac, ah |-> ah, fo |-> ac, fp |-> 0, fl |-> ac, fc |-> ac, fh |-> ac] :
        d \in Offsets, bh \in Prices, bl \in Prices, hp \in HistPos,
        sh \in Prices, sl \in Prices,
        al \in Prices, ac \in Prices, ah \in Prices}

\* Files that vary the forward bars; uniform history, flat anchor bar, the
\* other forward bars flat at ac
SimFiles ==
    {[len |-> FileLen, off |-> d, bh |-> bh, bl |-> bl, hp |-> 58, sh |-> bh, sl |-> bl,
      al |-> ac, ac |-> ac, ah |-> ac, fo |-> ac, fp |-> fp, fl |-> fl, fc |-> fc, fh |-> fh] :
        d \in Offsets, bh \in Prices, bl \in Prices, ac \in Prices,
        fp \in FwdPos, fl \in Prices, fc \in Prices, fh \in Prices}

\* Files that end one, two or three bars before the 82 bars StocksBacktest::new
\* asks for
ShortFiles ==
    {[len |-> d + MinBarsAfterDay - short, off |-> d, bh |-> p, bl |-> p, hp |-> 58,
      sh |-> p, sl |-> p, al |-> p, ac |-> p, ah |-> p,
      fo |-> p, fp |-> 0, fl |-> p, fc |-> p, fh |-> p] :
        d \in Offsets, short \in 1..3, p \in Prices}

InitClassify ==
    /\ file \in ClassifyFiles
    /\ file.al <= file.ac /\ file.ac <= file.ah

InitSim ==
    /\ file \in SimFiles
    /\ file.bl <= file.bh
    /\ file.fl <= file.fc /\ file.fc <= file.fh

InitShort == file \in ShortFiles

\* ------------------------------------------------- the daily file of a stock
\* jquants_unit of the configuration file
JquantsUnit == 10

\* from and to of push_2 / push, as day numbers
FromDate == MinPosition - 1
ToDate == MinPosition + 3

\* A daily file is described by its length, the flat price `base` of its
\* history, the high `wh` of the three wide bars at the indices WidePos, the
\* close of the bar at index 59, the open and the close of the bar at index 60,
\* the close of the bar at index 61 and the day `gap` on which there is no bar.
\* The date of a bar is its index, plus one from the gap on.
WidePos == {2, 3, 4}

NoGap == ToDate + 1

\* a bar that opens at `open` and closes at `close`; the session prices are
\* its extremes
DayBar(date, open, close) ==
    LET high == IF open > close THEN open ELSE close
        low == IF open < close THEN open ELSE close
    IN  OhlcPremium(date, open, high, low, close, high, low)

DayBarAt(f, i) ==
    LET date == IF i < f.gap THEN i ELSE i + 1
    IN  IF i \in WidePos THEN OhlcPremium(date, f.base, f.wh, f.base, f.base, f.base, f.base)
        ELSE IF i < MinPosition THEN DayBar(date, f.base, f.base)
        ELSE IF i = MinPosition THEN DayBar(date, f.base, f.c59)
        ELSE IF i = MinPosition + 1 THEN DayBar(date, f.o60, f.c60)
        ELSE DayBar(date, f.c60, f.c61)

\* serde_json::from_str(&read_to_string(ohlc_vec_path))
LoadPremium(f) == [i \in 1..f.len |-> DayBarAt(f, i - 1)]

DayFiles ==
    {f \in [len : (MinPosition + 1)..(MinPosition + 3),
            base : Prices, wh : Prices, c59 : Prices,
            o60 : Prices, c60 : Prices, c61 : {1, MaxPrice},
            gap : {MinPosition + 1, NoGap}] :
        /\ f.wh \in {f.base, MaxPrice}
        /\ f.len < MinPosition + 2 => (f.o60 = f.c59 /\ f.c60 = f.c59)
        /\ f.len < MinPosition + 3 => f.c61 = 1}

NoDayFile == [len |-> 0]

NoBarFile == [len |-> 0, off |-> 0]

\* what the last call of from_vec was given and what it answered
NoLast == [date |-> NoDate, position |-> NoPosition, result |-> "none"]

NoReport == [list |-> <<>>, morning_close |-> <<>>, afternoon_open |-> <<>>,
             close |-> <<>>]

\* the lists of dates of the TOPIX windows that select a bucket
TopixWindows == {{}, FromDate..ToDate}

Statuses ==
    {"BreakoutResistance", "FailedBreakoutResistance",
     "FailedBreakoutSupport", "BreakoutSupport"}

\* the backtest is not running
BacktestIdle ==
    /\ file = NoBarFile
    /\ day = 0
    /\ pc = "idle"
    /\ backtest = NoRecord
    /\ locals = NoLocals

\* no list of the day trading analysis is being built
DayIdle ==
    /\ ohlc_file = NoDayFile
    /\ mode = "backtest"
    /\ loop_date = NoDate
    /\ data = <<>>
    /\ last_call = NoLast
    /\ dpc = "idle"
    /\ report = NoReport

\* backtesting_to_json is not running
DriverIdle ==
    /\ nikkei225 = <<>>
    /\ row = 0
    /\ step = 0
    /\ backtest_analyzer_vec = <<>>
    /\ bpc = "idle"

\* TTestResult::new is not running
TTestIdle ==
    /\ t_data = <<>>
    /\ t_test = NoTTest
    /\ t_test_result = NoTTestResult
    /\ shown = NoLine
    /\ tpc = "idle"

\* async_exec is not running
AsyncIdle ==
    /\ a_tasks = <<>>
    /\ a_next = 0
    /\ a_done = <<>>
    /\ a_list = <<>>
    /\ apc = "idle"

\* no TOPIX list is being built
TopixIdle ==
    /\ topix_data = <<>>
    /\ topix_list = <<>>
    /\ xpc = "idle"

\* first_fetch is not running
FetchIdle ==
    /\ f_requests = <<>>
    /\ fpc = "idle"

\* fetch_nikkei225_db is not running
DbIdle ==
    /\ stocks_ohlc = <<>>
    /\ now = [date |-> 0, hour |-> 0]
    /\ trading_calender = {}
    /\ i_back = 0
    /\ visited = <<>>
    /\ runs = 0
    /\ npc = "idle"

\* none of the programs of the fetcher and of the reports is running
ExtIdle == AsyncIdle /\ TopixIdle /\ FetchIdle /\ DbIdle

\* neither the backtest nor the daily analysis is running
BaseIdle == BacktestIdle /\ DayIdle /\ DriverIdle /\ TTestIdle

Init ==
    /\ InitClassify \/ InitSim \/ InitShort
    /\ day = file.off
    /\ pc = "new"
    /\ backtest = NoRecord
    /\ locals = NoLocals
    /\ DayIdle
    /\ DriverIdle
    /\ TTestIdle
    /\ ExtIdle

\* --------------------------------------------------- StocksBacktest::new
\* the guard asking only for the 81 bars the slices of BacktestAnalyzer::new read
TooShort_ForSlices(raw_ohlc, d) == Len(raw_ohlc) - d < FutureLen20

\* raw_ohlc.len() - day < 82
TooShort(raw_ohlc, d) == Len(raw_ohlc) - d < MinBarsAfterDay

\* if raw_ohlc.len() - day < 82 { return Err(MyError::OutOfRange) }
OutOfRangeOn(raw_ohlc) ==
    /\ TooShort(raw_ohlc, day)
    /\ pc' = "OutOfRange"
    /\ UNCHANGED <<file, day, backtest, locals>>
    /\ UNCHANGED notBacktest

\* let backtest_analyzer = BacktestAnalyzer::new(raw_ohlc, day)?; Ok(Self {..})
OkOn(raw_ohlc, l) ==
    /\ pc' = "Ok"
    /\ backtest' = BacktestAnalyzerWith(raw_ohlc, day, l)
    /\ locals' = l
    /\ UNCHANGED <<file, day>>
    /\ UNCHANGED notBacktest

AnalyzeOn(raw_ohlc) ==
    /\ ~TooShort(raw_ohlc, day)
    /\ OkOn(raw_ohlc, AnalyzerLocals(raw_ohlc, day))

StocksBacktestNewOutOfRange ==
    /\ pc = "new"
    /\ OutOfRangeOn(Load(file))

StocksBacktestNewOk ==
    /\ pc = "new"
    /\ AnalyzeOn(Load(file))

Next == StocksBacktestNewOutOfRange \/ StocksBacktestNewOk

Spec == Init /\ [][Next]_vars

\* ------------------------------------- async_exec / create_stocks_window_list
\* let mut stocks_daytrading_list = StocksDaytradingList::new(); push_2(..)
InitDay ==
    /\ BacktestIdle
    /\ DriverIdle
    /\ TTestIdle
    /\ ExtIdle
    /\ ohlc_file \in DayFiles
    /\ mode \in {"daytrading", "window"}
    /\ loop_date = FromDate
    /\ data = <<>>
    /\ last_call = NoLast
    /\ dpc = "push"
    /\ report = NoReport

\* the answer of from_vec for the date of the loop, before the record is built
FromVecOutcome(ohlc_vec) ==
    [date |-> loop_date,
     position |-> Position(ohlc_vec, loop_date),
     result |-> IF Position(ohlc_vec, loop_date) = NoPosition THEN "OutOfRange"
                ELSE IF ~HasHistory(Position(ohlc_vec, loop_date)) THEN "OutOfRange"
                ELSE "Ok"]

\* a loop that is left at the first date from_vec refuses
Advance_UntilRefused ==
    /\ loop_date' = loop_date + 1
    /\ dpc' = IF loop_date + 1 <= ToDate /\ last_call'.result = "Ok" THEN "push" ELSE "loaded"

\* date += Duration::days(1); while date <= to
Advance ==
    /\ loop_date' = loop_date + 1
    /\ dpc' = IF loop_date + 1 <= ToDate THEN "push" ELSE "loaded"

\* push_2 keeping the record of every day from_vec accepts
Kept_Every(stocks_daytrading) == TRUE

\* if stocks_daytrading.status != Status::NoChange
Kept(stocks_daytrading) == stocks_daytrading.status # "NoChange"

\* one turn of the loop of StocksDaytradingList::push_2
Push2On(ohlc_vec) ==
    /\ last_call' = FromVecOutcome(ohlc_vec)
    /\ data' = IF last_call'.result = "Ok"
               THEN IF Kept(StocksDaytradingAt(ohlc_vec, JquantsUnit, last_call'.position))
                    THEN Append(data, StocksDaytradingAt(ohlc_vec, JquantsUnit,
                                                         last_call'.position))
                    ELSE data
               ELSE data
    /\ Advance
    /\ UNCHANGED <<ohlc_file, mode, report>>
    /\ UNCHANGED notDay

Push2Step ==
    /\ mode = "daytrading"
    /\ dpc = "push"
    /\ Push2On(LoadPremium(ohlc_file))

\* one turn of the loop of StocksWindowList::push
PushOn(ohlc_vec) ==
    /\ last_call' = FromVecOutcome(ohlc_vec)
    /\ data' = IF last_call'.result = "Ok"
               THEN Append(data, StocksWindowAt(ohlc_vec, JquantsUnit, last_call'.position))
               ELSE data
    /\ Advance
    /\ UNCHANGED <<ohlc_file, mode, report>>
    /\ UNCHANGED notDay

PushStep ==
    /\ mode = "window"
    /\ dpc = "push"
    /\ PushOn(LoadPremium(ohlc_file))

\* one bucket of get_windows_related_result_2: the filter, then t_test on the
\* filtered list.  The report keeps the filtered list and the vectors handed
\* to TTestResult::new; the mean and the p-value computed from them by the
\* statistics library are not represented.
TTestOn(list) ==
    /\ report' = IF TTestPanics(MorningCloseSamples(list))
                 THEN [list |-> list,
                       morning_close |-> MorningCloseSamples(list),
                       afternoon_open |-> <<>>,
                       close |-> <<>>]
                 ELSE [list |-> list,
                       morning_close |-> MorningCloseSamples(list),
                       afternoon_open |-> AfternoonOpenSamples(list),
                       close |-> CloseSamples(list)]
    /\ dpc' = IF TTestPanics(MorningCloseSamples(list)) THEN "panic" ELSE "reported"
    /\ UNCHANGED <<ohlc_file, mode, loop_date, data, last_call>>
    /\ UNCHANGED notDay

BucketTTest ==
    /\ mode = "daytrading"
    /\ dpc = "loaded"
    /\ \E status \in Statuses, window_dates \in TopixWindows, lim \in limit :
           TTestOn(Bucket(data, status, window_dates, lim))

NextDay == Push2Step \/ PushStep \/ BucketTTest

SpecDay == InitDay /\ [][NextDay]_vars

\* ------------------------------------------------------ backtesting_to_json
\* for step in (0..=1200).step_by(9)
StepBy == 9
StepMax == 1200

\* The lengths of the files of the roster: no bar, one bar short of a first
\* anchor, exactly one anchor, one bar short of a second anchor, exactly two
\* anchors.
DriverLens ==
    {0, MinBarsAfterDay - 1, MinBarsAfterDay, MinBarsAfterDay + StepBy - 1,
     MinBarsAfterDay + StepBy}

\* Files with a flat history at b and every bar from index 59 on flat at ac
DriverFiles ==
    {[len |-> n, off |-> 0, bh |-> b, bl |-> b, hp |-> 58, sh |-> b, sl |-> b,
      al |-> ac, ac |-> ac, ah |-> ac, fo |-> ac, fp |-> 0, fl |-> ac, fc |-> ac, fh |-> ac] :
        n \in DriverLens, b \in Prices, ac \in Prices}

\* An instrument of the roster: its file parses, does not parse, or is absent
Instruments ==
    {[load |-> "ok", bars |-> f] : f \in DriverFiles}
        \cup {[load |-> "parse_error", bars |-> NoBarFile],
              [load |-> "missing", bars |-> NoBarFile]}

\* let nikkei225 = load_nikkei225_list()?; let mut backtest_analyzer_vec = Vec::new()
InitDriver ==
    /\ BacktestIdle
    /\ DayIdle
    /\ TTestIdle
    /\ ExtIdle
    /\ nikkei225 \in Instruments \X Instruments
    /\ row = 1
    /\ step = 0
    /\ backtest_analyzer_vec = <<>>
    /\ bpc = "loop"

\* the inner loop is left: the next row of the roster, from step 0
NextRow ==
    /\ row' = row + 1
    /\ step' = 0

\* an inner loop over every offset
NextStep_EveryDay ==
    IF step + 1 <= StepMax
    THEN row' = row /\ step' = step + 1
    ELSE NextRow

\* the next value of (0..=1200).step_by(9), or the next row after the last one
NextStep ==
    IF step + StepBy <= StepMax
    THEN row' = row /\ step' = step + StepBy
    ELSE NextRow

\* an inner loop that goes on to the next offset after OutOfRange
Break_Continue == NextStep

\* MyError::OutOfRange => break
Break == NextRow

InLoop == bpc = "loop" /\ row <= Len(nikkei225)

\* StocksBacktest::new: std::fs::read_to_string(path).unwrap() on an absent file
DriverReadPanics ==
    /\ InLoop
    /\ nikkei225[row].load = "missing"
    /\ bpc' = "panic"
    /\ UNCHANGED <<nikkei225, row, step, backtest_analyzer_vec>>
    /\ UNCHANGED notDriver

\* StocksBacktest::new: serde_json::from_str fails, Err(MyError::Anyhow);
\* backtesting_to_json: Err(e) => { error!(..); return Err(e); }
DriverParseError ==
    /\ InLoop
    /\ nikkei225[row].load = "parse_error"
    /\ bpc' = "Err"
    /\ UNCHANGED <<nikkei225, row, step, backtest_analyzer_vec>>
    /\ UNCHANGED notDriver

\* Err(e) => match e { MyError::OutOfRange => break, .. }
DriverOutOfRange ==
    /\ InLoop
    /\ nikkei225[row].load = "ok"
    /\ TooShort(Load(nikkei225[row].bars), step)
    /\ Break
    /\ UNCHANGED <<nikkei225, backtest_analyzer_vec, bpc>>
    /\ UNCHANGED notDriver

\* the record pushed for an accepted anchor: StocksBacktest { code, backtest_analyzer }
StocksBacktestOf(code, raw_ohlc, d) ==
    [code |-> code, backtest_analyzer |-> BacktestAnalyzerNew(raw_ohlc, d)]

\* Ok(backtest_analyzer) => backtest_analyzer_vec.push(backtest_analyzer)
DriverPush ==
    /\ InLoop
    /\ nikkei225[row].load = "ok"
    /\ ~TooShort(Load(nikkei225[row].bars), step)
    /\ backtest_analyzer_vec' =
           Append(backtest_analyzer_vec,
                  StocksBacktestOf(row, Load(nikkei225[row].bars), step))
    /\ NextStep
    /\ UNCHANGED <<nikkei225, bpc>>
    /\ UNCHANGED notDriver

\* after the last row: the vector is serialized and written, Ok(())
DriverFinish ==
    /\ bpc = "loop"
    /\ row > Len(nikkei225)
    /\ bpc' = "Ok"
    /\ UNCHANGED <<nikkei225, row, step, backtest_analyzer_vec>>
    /\ UNCHANGED notDriver

NextDriver ==
    DriverReadPanics \/ DriverParseError \/ DriverOutOfRange \/ DriverPush \/ DriverFinish

SpecDriver == InitDriver /\ [][NextDriver]_vars

\* the day trading lists and the backtest driver, each started on its own
SpecDrivers == (InitDay \/ InitDriver) /\ [][NextDay \/ NextDriver]_vars

\* --------------------------------------------- TTestResult::new and Display

\* the vectors TTestResult::new is called with
SampleVectors == UNION {[1..n -> SampleValues] : n \in 0..MaxSamples}

InitTTest ==
    /\ BacktestIdle
    /\ DayIdle
    /\ DriverIdle
    /\ ExtIdle
    /\ t_data \in SampleVectors
    /\ t_test = NoTTest
    /\ t_test_result = NoTTestResult
    /\ shown = NoLine
    /\ tpc = "new"

\* the locals of TTestResult::new before the distribution is built
TTestLocals(xs, p_raw) ==
    [mean |-> Mean(xs), variance |-> Variance(xs),
     t |-> TStatistic(Mean(xs), Variance(xs), Len(xs)),
     df |-> Freedom(xs), p_raw |-> p_raw]

\* StudentsT::new(0.0, 1.0, df).unwrap() with df <= 0
TTestResultNewPanics ==
    /\ tpc = "new"
    /\ TTestPanics(t_data)
    /\ tpc' = "panic"
    /\ t_test' = TTestLocals(t_data, NaN)
    /\ UNCHANGED <<t_data, t_test_result, shown>>
    /\ UNCHANGED notTTest

\* t_distribution.cdf(t) with t = NaN: the library either refuses the
\* argument of its incomplete beta function and panics, or returns NaN
TTestResultNewNaN ==
    /\ tpc = "new"
    /\ ~TTestPanics(t_data)
    /\ IsNaN(TTestLocals(t_data, NaN).t)
    /\ t_test' = TTestLocals(t_data, NaN)
    /\ \/ /\ tpc' = "panic"
          /\ UNCHANGED t_test_result
       \/ /\ tpc' = "built"
          /\ t_test_result' = TTestResultOf(Mean(t_data), NaN)
    /\ UNCHANGED <<t_data, shown>>
    /\ UNCHANGED notTTest

\* TTestResult::new returning Self { mean, p_value }
TTestResultNew ==
    /\ tpc = "new"
    /\ ~TTestPanics(t_data)
    /\ ~IsNaN(TTestLocals(t_data, NaN).t)
    /\ \E p_raw \in CdfValues(TTestLocals(t_data, NaN).t) :
           /\ t_test' = TTestLocals(t_data, p_raw)
           /\ t_test_result' = TTestResultOf(Mean(t_data), p_raw)
    /\ tpc' = "built"
    /\ UNCHANGED <<t_data, shown>>
    /\ UNCHANGED notTTest

\* write!(f, ..) of impl Display for TTestResult
DisplayFmt ==
    /\ tpc = "built"
    /\ shown' = Display(t_test_result)
    /\ tpc' = "shown"
    /\ UNCHANGED <<t_data, t_test, t_test_result>>
    /\ UNCHANGED notTTest

NextTTest == TTestResultNewPanics \/ TTestResultNewNaN \/ TTestResultNew \/ DisplayFmt

SpecTTest == InitTTest /\ [][NextTTest]_vars

\* ------------------------------- async_exec / create_stocks_window_list
\* the rows of the roster, one task each
MaxTasks == 3

\* the worker threads of the runtime of #[tokio::main]; a task of `inner` has
\* no await point and keeps its worker until it returns
Workers == 2

\* What `inner` does for a row: its file is absent (read_to_string(..).unwrap()
\* panics in the task), does not parse (Err), or gives a list of n records
TaskInputs ==
    {[load |-> "missing", n |-> 0], [load |-> "parse_error", n |-> 0],
     [load |-> "ok", n |-> 0], [load |-> "ok", n |-> 2]}

\* the list `inner` returns for row i: n records of instrument i
InnerList(i, n) == [j \in 1..n |-> [code |-> i, nth |-> j]]

InitAsync ==
    /\ BaseIdle
    /\ TopixIdle /\ FetchIdle /\ DbIdle
    /\ a_tasks \in [1..MaxTasks -> TaskInputs \X {"unspawned"}]
    /\ a_next = 1
    /\ a_done = <<>>
    /\ a_list = <<>>
    /\ apc = "spawn"

TaskState(i) == a_tasks[i][2]
TaskInput(i) == a_tasks[i][1]

\* .map(|row| tokio::spawn(inner(row, ..))).collect(): the next row's task
AsyncSpawn ==
    /\ apc = "spawn"
    /\ a_tasks' = [a_tasks EXCEPT ![a_next] = <<TaskInput(a_next), "queued">>]
    /\ a_next' = a_next + 1
    /\ apc' = IF a_next + 1 > MaxTasks THEN "join" ELSE "spawn"
    /\ UNCHANGED <<a_done, a_list>>
    /\ UNCHANGED notAsync

\* a free worker of the runtime starts a spawned task
TaskPoll(i) ==
    /\ TaskState(i) = "queued"
    /\ Cardinality({j \in 1..MaxTasks : TaskState(j) = "running"}) < Workers
    /\ a_tasks' = [a_tasks EXCEPT ![i] = <<TaskInput(i), "running">>]
    /\ UNCHANGED <<a_next, a_done, a_list, apc>>
    /\ UNCHANGED notAsync

\* `inner` returns (or panics): the task is complete
TaskFinish(i) ==
    /\ TaskState(i) = "running"
    /\ a_tasks' = [a_tasks EXCEPT ![i] = <<TaskInput(i), "done">>]
    /\ a_done' = Append(a_done, i)
    /\ UNCHANGED <<a_next, a_list, apc>>
    /\ UNCHANGED notAsync

\* a join that is over as soon as one task is complete
Joined_Any == Len(a_done) >= 1

\* futures::future::join_all(handles).await is over
Joined == \A i \in 1..MaxTasks : TaskState(i) = "done"

AsyncJoinAll ==
    /\ apc = "join"
    /\ Joined
    /\ apc' = "append"
    /\ a_next' = 1
    /\ UNCHANGED <<a_tasks, a_done, a_list>>
    /\ UNCHANGED notAsync

\* one turn of `for result in results`: a task that panicked is Err(JoinError)
\* and async_exec returns Err; a task that returned Err makes res.unwrap()
\* panic; else stocks_daytrading_list.append(stock)
AsyncAppend ==
    /\ apc = "append"
    /\ apc' = IF TaskInput(a_next).load = "missing" THEN "Err"
              ELSE IF TaskInput(a_next).load = "parse_error" THEN "panic"
              ELSE IF a_next + 1 > MaxTasks THEN "Ok" ELSE "append"
    /\ a_list' = IF TaskInput(a_next).load = "ok"
                 THEN a_list \o InnerList(a_next, TaskInput(a_next).n)
                 ELSE a_list
    /\ a_next' = a_next + 1
    /\ UNCHANGED <<a_tasks, a_done>>
    /\ UNCHANGED notAsync

NextAsync ==
    \/ AsyncSpawn
    \/ \E i \in 1..MaxTasks : TaskPoll(i)
    \/ \E i \in 1..MaxTasks : TaskFinish(i)
    \/ AsyncJoinAll
    \/ AsyncAppend

SpecAsync == InitAsync /\ [][NextAsync]_vars

\* ------------------------------------------------- BacktestingTopixList
\* the days of the TOPIX file
MaxTopix == 4

\* window_diff = (next_open / close * 1000.0).round() / 1000.0, in 1/1000
WindowDiffs == {990, 995, 1000, 1005, 1010}

\* Vec<BacktestingTopix>: the date is the place in the file
TopixData == UNION {[1..n -> WindowDiffs] : n \in 1..MaxTopix}

\* positive_window_diffs / negative_window_diffs before the sort
PositiveDiffs(xs) == SelectSeq(xs, LAMBDA x : x > 1000)
NegativeDiffs(xs) == SelectSeq(xs, LAMBDA x : x < 1000)

\* diffs[k] after diffs.sort_by(partial_cmp), 0-based
SortedAt(diffs, k) ==
    CHOOSE v \in {diffs[i] : i \in DOMAIN diffs} :
        /\ Cardinality({i \in DOMAIN diffs : diffs[i] < v}) <= k
        /\ k < Cardinality({i \in DOMAIN diffs : diffs[i] <= v})

\* diffs[diffs.len() / 2]
Median(diffs) == SortedAt(diffs, Len(diffs) \div 2)

\* (diffs[diffs.len() / 3], diffs[diffs.len() * 2 / 3])
LowerTertile(diffs) == SortedAt(diffs, Len(diffs) \div 3)
UpperTertile(diffs) == SortedAt(diffs, (Len(diffs) * 2) \div 3)

\* the dates of the file whose window_diff passes a test, in file order
DatesWhere(xs, Test(_)) == SelectSeq([i \in DOMAIN xs |-> i], LAMBDA i : Test(xs[i]))

\* TopixDailyWindowList::new: the four lists of the median split
TopixDailyWindowListOf(xs) ==
    [strong_positive |-> DatesWhere(xs, LAMBDA x : x > Median(PositiveDiffs(xs))),
     mild_positive |-> DatesWhere(xs, LAMBDA x : x > 1000 /\ x < Median(PositiveDiffs(xs))),
     mild_negative |-> DatesWhere(xs, LAMBDA x : x < 1000 /\ x > Median(NegativeDiffs(xs))),
     strong_negative |-> DatesWhere(xs, LAMBDA x : x < Median(NegativeDiffs(xs)))]

\* the arm of get_positive_window_list a window_diff takes
PositiveRegime(x, lower_tertile, upper_tertile) ==
    IF x > upper_tertile THEN "strong_positive"
    ELSE IF x > lower_tertile THEN "moderate_positive"
    ELSE IF x > 1000 THEN "mild_positive"
    ELSE "none"

\* the last arm taking a window_diff of 1.0 too
NegativeRegime_Inclusive(x, lower_tertile, upper_tertile) ==
    IF x < lower_tertile THEN "strong_negative"
    ELSE IF x < upper_tertile THEN "moderate_negative"
    ELSE IF x <= 1000 THEN "mild_negative"
    ELSE "none"

\* the arm of get_negative_window_list a window_diff takes
NegativeRegime(x, lower_tertile, upper_tertile) ==
    IF x < lower_tertile THEN "strong_negative"
    ELSE IF x < upper_tertile THEN "moderate_negative"
    ELSE IF x < 1000 THEN "mild_negative"
    ELSE "none"

Positives2(xs, name) ==
    DatesWhere(xs, LAMBDA x : PositiveRegime(x, LowerTertile(PositiveDiffs(xs)),
                                             UpperTertile(PositiveDiffs(xs))) = name)
Negatives2(xs, name) ==
    DatesWhere(xs, LAMBDA x : NegativeRegime(x, LowerTertile(NegativeDiffs(xs)),
                                             UpperTertile(NegativeDiffs(xs))) = name)

\* TopixDailyWindowList2::new: the six lists of the tercile split
TopixDailyWindowList2Of(xs) ==
    [strong_positive |-> Positives2(xs, "strong_positive"),
     moderate_positive |-> Positives2(xs, "moderate_positive"),
     mild_positive |-> Positives2(xs, "mild_positive"),
     mild_negative |-> Negatives2(xs, "mild_negative"),
     moderate_negative |-> Negatives2(xs, "moderate_negative"),
     strong_negative |-> Negatives2(xs, "strong_negative")]

\* the index of the median / of the tertiles is out of bounds in an empty Vec
TopixPanics(xs) == PositiveDiffs(xs) = <<>> \/ NegativeDiffs(xs) = <<>>

InitTopix ==
    /\ BaseIdle
    /\ AsyncIdle /\ FetchIdle /\ DbIdle
    /\ topix_data \in TopixData
    /\ topix_list = <<>>
    /\ xpc = "new"

TopixDailyWindowListNew ==
    /\ xpc = "new"
    /\ xpc' = IF TopixPanics(topix_data) THEN "panic" ELSE "median"
    /\ topix_list' = IF TopixPanics(topix_data) THEN <<>> ELSE TopixDailyWindowListOf(topix_data)
    /\ UNCHANGED topix_data
    /\ UNCHANGED notTopix

TopixDailyWindowList2New ==
    /\ xpc = "new"
    /\ xpc' = IF TopixPanics(topix_data) THEN "panic" ELSE "tertile"
    /\ topix_list' = IF TopixPanics(topix_data) THEN <<>> ELSE TopixDailyWindowList2Of(topix_data)
    /\ UNCHANGED topix_data
    /\ UNCHANGED notTopix

NextTopix == TopixDailyWindowListNew \/ TopixDailyWindowList2New

SpecTopix == InitTopix /\ [][NextTopix]_vars



\* ------------------------------------------ the bars behind a finished call
Horizons == {5, 10, 20}
Fractions == {Ratio38, Ratio50, Ratio62}

RawOhlc == Load(file)

\* fwd[i]: the i-th bar after the anchor bar, fwd[0] the first
Fwd(i) == RawOhlc[day + Lookback60 + i + 1]
Anchor == RawOhlc[day + Lookback60]

\* the 19 bars before the anchor bar, and the 20 bars that end with it
PriorBars == {RawOhlc[j] : j \in (day + 41)..(day + 59)}
TwentyBars == PriorBars \cup {Anchor}

MaxOf(S) == CHOOSE m \in S : \A x \in S : x <= m
MinOf(S) == CHOOSE m \in S : \A x \in S : m <= x
HighOf(bars) == MaxOf({b.high : b \in bars})
LowOf(bars) == MinOf({b.low : b \in bars})

\* every bar the call reads satisfies the Bar invariant
WindowValid == \A j \in (day + 1)..(day + FutureLen20) : BarInvariant(RawOhlc[j])

Outcome(h, r) ==
    CASE h = 5 /\ r = Ratio38 -> backtest.day5_with_stop_loss_38
      [] h = 5 /\ r = Ratio50 -> backtest.day5_with_stop_loss_50
      [] h = 5 /\ r = Ratio62 -> backtest.day5_with_stop_loss_62
      [] h = 10 /\ r = Ratio38 -> backtest.day10_with_stop_loss_38
      [] h = 10 /\ r = Ratio50 -> backtest.day10_with_stop_loss_50
      [] h = 10 /\ r = Ratio62 -> backtest.day10_with_stop_loss_62
      [] h = 20 /\ r = Ratio38 -> backtest.day20_with_stop_loss_38
      [] h = 20 /\ r = Ratio50 -> backtest.day20_with_stop_loss_50
      [] h = 20 /\ r = Ratio62 -> backtest.day20_with_stop_loss_62

Dist(r) ==
    CASE r = Ratio38 -> locals.stop_loss_range_38
      [] r = Ratio50 -> locals.stop_loss_range_50
      [] r = Ratio62 -> locals.stop_loss_range_62

Direction == backtest.long_or_short_or_control

\* forward bar i breaches the stop at fraction r: its excursion from
\* fwd[0].open, in units of the stop distance, is below -1.0 (Long, Control)
\* or above +1.0 (Short)
Breach(i, r) ==
    IF Direction = "Short"
    THEN Gt(FDiv(Fin(Fwd(i).high - Fwd(0).open, 1), Dist(r)), PlusOne)
    ELSE Lt(FDiv(Fin(Fwd(i).low - Fwd(0).open, 1), Dist(r)), MinusOne)

\* the close-based return read at forward bar i, sign flipped for Short
CloseReturn(i, r) ==
    LET q == Round2(FDiv(Fin(Fwd(i).close - Fwd(0).open, 1), Dist(r)))
    IN  IF Direction = "Short" THEN FNeg(q) ELSE q

\* the last_call forward bar the stop check of horizon h looks at
LastChecked(h) == IF h = 20 THEN 20 ELSE 10

\* ------------------------------------------------------------------ C1
\* C1: every simulated outcome of a window of valid bars is >= -1.0.
\* Fails on the code: a Control window with a flat history has stop distance
\* 0, and a forward close equal to fwd[0].open then yields 0/0 = NaN (C9).
C1_ReturnFloor ==
    (pc = "Ok" /\ WindowValid) =>
        \A h \in Horizons, r \in Fractions : Ge(Outcome(h, r), MinusOne)

\* ------------------------------------------------------------------ C2
\* C2: a breach of the stop on some forward bar at or before day h makes the
\* outcome of horizon h exactly -1.0, whatever the close at day h.
C2_BreachStopsOut ==
    pc = "Ok" =>
        \A h \in Horizons, r \in Fractions :
            (\E i \in 0..h : Breach(i, r)) => Outcome(h, r) = MinusOne

\* a Long event stopped by the low of fwd[4] although fwd[4] closes above the entry
C2_Witness ==
    /\ pc = "Ok"
    /\ Direction = "Long"
    /\ Breach(4, Ratio38)
    /\ Fwd(4).close > Fwd(0).open
    /\ Outcome(5, Ratio38) = MinusOne

\* ------------------------------------------------------------------ C3
\* C3: the direction is Long iff anchor.close > max(high) of the 19 prior
\* bars, Short iff it is not Long and anchor.close < min(low) of them, and
\* Control otherwise.
C3_Classification ==
    pc = "Ok" =>
        Direction = IF Anchor.close > HighOf(PriorBars) THEN "Long"
                    ELSE IF Anchor.close < LowOf(PriorBars) THEN "Short"
                    ELSE "Control"

\* a Short event of a window of valid bars whose anchor bar has the highest high
C3_Witness ==
    /\ pc = "Ok"
    /\ WindowValid
    /\ Direction = "Short"
    /\ Anchor.high > HighOf(PriorBars)

\* ------------------------------------------------------------------ C4
\* C4 as stated: the stop distance takes its extremes from the 20 bars that
\* include the anchor bar.
C4_StopDistanceTwentyBars ==
    pc = "Ok" =>
        \A r \in Fractions :
            Dist(r) = IF Direction = "Long"
                      THEN Fin((Anchor.close - LowOf(TwentyBars)) * r, 100)
                      ELSE IF Direction = "Short"
                      THEN Fin((HighOf(TwentyBars) - Anchor.close) * r, 100)
                      ELSE Fin((HighOf(TwentyBars) - LowOf(TwentyBars)) * r, 100)

\* C4 amended: the stop distance takes its extremes from the 19 bars before
\* the anchor bar: Long (anchor.close - min(low)) * f, Short
\* (max(high) - anchor.close) * f, Control (max(high) - min(low)) * f.
C4_StopDistancePriorBars ==
    pc = "Ok" =>
        \A r \in Fractions :
            Dist(r) = IF Direction = "Long"
                      THEN Fin((Anchor.close - LowOf(PriorBars)) * r, 100)
                      ELSE IF Direction = "Short"
                      THEN Fin((HighOf(PriorBars) - Anchor.close) * r, 100)
                      ELSE Fin((HighOf(PriorBars) - LowOf(PriorBars)) * r, 100)

\* a Long event whose anchor bar has a low below every prior low
C4_Witness ==
    /\ pc = "Ok"
    /\ WindowValid
    /\ Direction = "Long"
    /\ Anchor.low < LowOf(PriorBars)
    /\ Dist(Ratio38) = Fin((Anchor.close - LowOf(PriorBars)) * Ratio38, 100)

\* ------------------------------------------------------------------ C5
\* C5 as stated: an outcome that is not stopped out is the close-based return
\* read at fwd[h].  Stated for the windows of valid bars with a positive stop
\* distance, where that return is a number.
C5_CloseAtFwdH ==
    (pc = "Ok" /\ WindowValid) =>
        \A h \in Horizons, r \in Fractions :
            (Dist(r).n > 0 /\ \A i \in 0..LastChecked(h) : ~Breach(i, r)) =>
                Outcome(h, r) = CloseReturn(h, r)

\* C5 amended: an outcome that is not stopped out is the close-based return
\* read at fwd[h-1], the h-th bar after the anchor (horizon 5 reads fwd[4],
\* 10 reads fwd[9], 20 reads fwd[19]), sign flipped for Short.
C5_CloseAtFwdHMinus1 ==
    pc = "Ok" =>
        \A h \in Horizons, r \in Fractions :
            (\A i \in 0..LastChecked(h) : ~Breach(i, r)) =>
                Outcome(h, r) = CloseReturn(h - 1, r)

\* a horizon-5 outcome that is not stopped and whose fwd[4] and fwd[5] close apart
C5_Witness ==
    /\ pc = "Ok"
    /\ WindowValid
    /\ \A i \in 0..10 : ~Breach(i, Ratio62)
    /\ Fwd(4).close # Fwd(5).close
    /\ Outcome(5, Ratio62) = CloseReturn(4, Ratio62)
    /\ Outcome(5, Ratio62) # CloseReturn(5, Ratio62)
    /\ Outcome(5, Ratio62).k = "fin"

\* ------------------------------------------------------------------ C6
\* C6 as stated: a breach on any of the 21 forward bars stops every horizon.
C6_WholePathStop ==
    pc = "Ok" =>
        \A h \in Horizons, r \in Fractions :
            (\E i \in 0..20 : Breach(i, r)) => Outcome(h, r) = MinusOne

\* C6 amended: the stop check of horizons 5 and 10 examines fwd[0..10], that
\* of horizon 20 examines fwd[0..20]; a breach on any of those bars, also one
\* after day h, makes the outcome -1.0.
C6_CheckedPathStop ==
    pc = "Ok" =>
        \A h \in Horizons, r \in Fractions :
            (\E i \in 0..LastChecked(h) : Breach(i, r)) => Outcome(h, r) = MinusOne

\* horizon 5 stopped out by a breach that happens on fwd[10] only
C6_Witness ==
    /\ pc = "Ok"
    /\ WindowValid
    /\ Breach(10, Ratio38)
    /\ \A i \in 0..9 : ~Breach(i, Ratio38)
    /\ Outcome(5, Ratio38) = MinusOne

\* ------------------------------------------------------------------ C8
\* C8: when anchor.close is both above the prior high and below the prior
\* low, no direction is returned.  Fails on the code: the first match arm
\* returns Long.
C8_BothBreakoutsFatal ==
    pc = "Ok" =>
        ~(Anchor.close > HighOf(PriorBars) /\ Anchor.close < LowOf(PriorBars))

\* ------------------------------------------------------------------ C9
\* C9: no record is returned from a stop distance of zero.  Fails on the
\* code: the distance is divided by without a check.
C9_ZeroDistanceReported ==
    pc = "Ok" => \A r \in Fractions : Dist(r).n # 0

\* --------------------------------------------- claims on the daily analysis
\* the index of the bar of the file that carries the date `d`
DatedAt(d) == {i \in 0..(ohlc_file.len - 1) : DayBarAt(ohlc_file, i).date = d}

\* the records of a reported bucket that have a value / no value for a result
WithResult(field) == {i \in 1..Len(report.list) : report.list[i][field] # None}

\* C7: an outcome whose forward bar does not exist is omitted: the records of
\* a reported bucket that have no next-day bar feed no value into the bucket's
\* statistics, so each vector handed to the t-test has exactly one sample per
\* record that has the result.
C7_MissingOutcomeNotFed ==
    dpc = "reported" =>
        /\ Len(report.morning_close) = Cardinality(WithResult("result_morning_close"))
        /\ Len(report.afternoon_open) = Cardinality(WithResult("result_afternoon_open"))
        /\ Len(report.close) = Cardinality(WithResult("result_close"))

\* C10: window construction for the bar at anchor_index fails with
\* OutOfRange if and only if anchor_index < 59.
C10_HistoryGuard ==
    \A i \in DatedAt(last_call.date) :
        last_call.result # "none" => (last_call.result = "OutOfRange" <=> i < 59)

\* C10 witness: from_vec has answered Ok for the bar at index 59
C10_Witness ==
    /\ last_call.result = "Ok"
    /\ 59 \in DatedAt(last_call.date)
    /\ Len(data) > 0

\* C11: window construction for an anchor that has exactly 59 bars before it
\* (the bar at index 59) fails with OutOfRange, and for an anchor that has
\* exactly 60 bars before it (the bar at index 60) it succeeds.
C11_SixtyBarsBefore ==
    \A i \in DatedAt(last_call.date) :
        last_call.result # "none" =>
            /\ i = 59 => last_call.result = "OutOfRange"
            /\ i = 60 => last_call.result = "Ok"

\* -------------------------------------------- claims on the window's future
\* the number of bars of the file after the anchor bar raw_ohlc[day + 59]
BarsAfterAnchor == file.len - (day + Lookback60)

\* C12 as stated: StocksBacktest::new fails with OutOfRange if and only if
\* fewer than 20 bars remain after the anchor bar.
C12_TwentyBarsAfter ==
    pc \in {"Ok", "OutOfRange"} => (pc = "OutOfRange" <=> BarsAfterAnchor < 20)

\* C12: StocksBacktest::new fails with OutOfRange if and only if fewer than 22
\* bars remain after the anchor bar.
C12_TwentyTwoBarsAfter ==
    pc \in {"Ok", "OutOfRange"} => (pc = "OutOfRange" <=> BarsAfterAnchor < 22)

\* C12 witness: an anchor followed by exactly 22 bars has been accepted
C12_Witness == pc = "Ok" /\ BarsAfterAnchor = 22

\* ------------------------------------------------------------ the drivers
\* the values of (0..=1200).step_by(9)
Steps == {k * StepBy : k \in 0..(StepMax \div StepBy)}

\* the offsets of an instrument's file at which StocksBacktest::new has the
\* bars it asks for
AcceptedSteps(instrument) ==
    IF instrument.load = "ok"
    THEN LET raw_ohlc == Load(instrument.bars)
         IN  {s \in Steps : ~TooShort(raw_ohlc, s)}
    ELSE {}

Directions(records) ==
    {records[k].backtest_analyzer.long_or_short_or_control : k \in 1..Len(records)}

\* C13 as stated: when backtesting_to_json has finished its collection holds
\* no record whose direction is Control, and the list of push_2 holds no
\* record whose status is NoChange.
C13_NoControlNoNoChange ==
    /\ bpc = "Ok" => "Control" \notin Directions(backtest_analyzer_vec)
    /\ mode = "daytrading" => \A k \in 1..Len(data) : data[k].status # "NoChange"

\* C13: the list of push_2 never holds a record whose status is NoChange,
\* and when backtesting_to_json has finished its collection holds the record
\* of every accepted anchor of every instrument, whatever its direction.
C13_NoChangeDroppedControlKept ==
    /\ mode = "daytrading" => \A k \in 1..Len(data) : data[k].status # "NoChange"
    /\ bpc = "Ok" =>
           \A r \in 1..Len(nikkei225) : \A s \in AcceptedSteps(nikkei225[r]) :
               \E k \in 1..Len(backtest_analyzer_vec) :
                   /\ backtest_analyzer_vec[k].code = r
                   /\ backtest_analyzer_vec[k].backtest_analyzer.date = s + Lookback60 - 1

\* C13 witness: backtesting_to_json has finished with a Control record next to
\* a Long one
C13_Witness ==
    /\ bpc = "Ok"
    /\ {"Control", "Long"} \subseteq Directions(backtest_analyzer_vec)

FailedRows == {r \in 1..Len(nikkei225) : nikkei225[r].load # "ok"}

\* C14: when the file of one instrument of the roster cannot be read or
\* parsed, backtesting_to_json neither returns an error nor panics, and when
\* it has finished its collection holds the records of the other instruments.
C14_FailureSkipped ==
    FailedRows # {} =>
        /\ bpc \notin {"Err", "panic"}
        /\ bpc = "Ok" =>
               \A r \in 1..Len(nikkei225) : \A s \in AcceptedSteps(nikkei225[r]) :
                   \E k \in 1..Len(backtest_analyzer_vec) :
                       /\ backtest_analyzer_vec[k].code = r
                       /\ backtest_analyzer_vec[k].backtest_analyzer.date = s + Lookback60 - 1

\* ------------------------------------------------------------ the t-test
\* the t-statistic of the vector is undefined: no sample, or samples that
\* are all the same
Undefined(xs) == \A i \in DOMAIN xs : \A j \in DOMAIN xs : xs[i] = xs[j]

\* C15: for a vector whose t-statistic is undefined (no sample, or one or
\* more samples with zero variance) TTestResult::new does not panic and no
\* line with a mean, a p-value and a significance flag is written.
C15_UndefinedNotComputed ==
    Undefined(t_data) => tpc \notin {"panic", "shown"}

\* the reported value v is the multiple of 1/1000 nearest to x
Nearest3(v, x) ==
    /\ v.k = "fin" /\ v.d = 1000
    /\ 2 * (v.n * x.d - 1000 * x.n) <= x.d
    /\ 2 * (1000 * x.n - v.n * x.d) <= x.d

\* a = b for two finite values
Same(a, b) == a.k = "fin" /\ b.k = "fin" /\ a.n * b.d = b.n * a.d

\* the square of mean / sqrt(variance / n) for samples in tenths, with the
\* sample variance: (sum / n)^2 * n * (n - 1) / (sum of squares - sum^2 / n)
TSquared(xs) ==
    Fin(SumOf(xs) * SumOf(xs) * (Len(xs) - 1),
        Len(xs) * SumOf(Squares(xs)) - SumOf(xs) * SumOf(xs))

\* C16: for n >= 2 samples that are not all the same, the result holds the
\* sample mean rounded to 3 decimals and the p-value 1 - round(p_raw, 3) when
\* the mean is >= 0 and round(p_raw, 3) when it is < 0, with
\* t = mean / sqrt(variance / n), df = n - 1 and p_raw the value of the CDF.
C16_MeanAndPValue ==
    (tpc \in {"built", "shown"} /\ Len(t_data) >= 2 /\ ~Undefined(t_data)) =>
        /\ Nearest3(t_test_result.mean, Fin(SumOf(t_data), 10 * Len(t_data)))
        /\ t_test.df = Len(t_data) - 1
        /\ t_test.t.k = "fin"
        /\ Sign(t_test.t) = Sign(t_test.mean)
        /\ Same(Abs(t_test.t), TSquared(t_data))
        /\ t_test.p_raw \in CdfValues(t_test.t)
        /\ IF SumOf(t_data) >= 0
           THEN Nearest3(OneMinus(t_test_result.p_value), t_test.p_raw)
           ELSE Nearest3(t_test_result.p_value, t_test.p_raw)

\* C16 witness: a result for three samples with a positive mean, whose
\* p-value comes from a CDF value that is not a multiple of 1/1000
C16_Witness ==
    /\ tpc = "built"
    /\ t_data = <<-5, 3, 3>>
    /\ t_test.p_raw = Fin(9536, 10000)
    /\ t_test_result = [mean |-> Fin(33, 1000), p_value |-> Fin(46, 1000)]

\* C17: a line is flagged significant if and only if the reported p-value,
\* the one rounded to 3 decimals, is < 0.05.
C17_FlagOnReportedPValue ==
    tpc = "shown" => (shown.sig <=> Lt(t_test_result.p_value, Level))

\* ------------------------------------------------- the standardized range-diff
TestingOhlc60 == Slice(RawOhlc, day, day + Lookback60)

\* C18: the standardized_diff of a record is the one computed on the
\* gap-adjusted copy of the 60-bar window, not on the bars as read.
C18_DiffOnAdjustedBars ==
    pc = "Ok" => backtest.standardized_diff = StandardizedDiff(GapAdjusted(TestingOhlc60))

\* C19: the standardized_diff of a record built from 60 bars that satisfy
\* the Bar invariant is a number in [0, 1], never NaN or infinite.
C19_DiffInUnitInterval ==
    (pc = "Ok" /\ \A j \in 1..Lookback60 : BarInvariant(TestingOhlc60[j])) =>
        /\ backtest.standardized_diff.k = "fin"
        /\ 0 <= backtest.standardized_diff.n
        /\ backtest.standardized_diff.n <= backtest.standardized_diff.d

\* ------------------------------------------------------------ async_exec
\* the number of places of the list that hold the record r
Occurrences(list, r) == Cardinality({k \in 1..Len(list) : list[k] = r})

\* the tasks that are spawned and not complete
InFlight == {i \in 1..Len(a_tasks) : TaskState(i) \in {"queued", "running"}}

\* C21: the lists of the tasks are concatenated only once every task is
\* complete, and when all tasks succeed the concatenation holds every record
\* of every row of the roster exactly once, whatever the order of completion.
C21_JoinedBeforeConcatenation ==
    /\ (apc \in {"append", "Ok", "Err", "panic"} \/ a_list # <<>>) =>
           \A i \in 1..MaxTasks : TaskState(i) = "done"
    /\ apc = "Ok" =>
           /\ \A i \in 1..MaxTasks : \A j \in 1..TaskInput(i).n :
                  Occurrences(a_list, [code |-> i, nth |-> j]) = 1
           /\ \A k \in 1..Len(a_list) :
                  a_list[k].code \in 1..MaxTasks /\ a_list[k].nth \in 1..TaskInput(a_list[k].code).n

\* C21 witness: async_exec returned the records of the first and the last row
\* although the last row's task completed first
C21_Witness ==
    /\ apc = "Ok"
    /\ a_done[1] = MaxTasks
    /\ TaskInput(1).n = 2 /\ TaskInput(MaxTasks).n = 2

\* C22: at every moment the number of tasks that are spawned and not
\* complete is at most a fixed bound, here the number of workers, that does
\* not grow with the roster.
C22_InFlightBounded == Cardinality(InFlight) <= Workers

\* ------------------------------------------------------------ push_2
\* the dates of [from, to] that have a bar with 59 bars before it whose
\* record is not NoChange
KeptDates ==
    {d \in FromDate..ToDate :
        \E i \in DatedAt(d) :
            /\ i >= MinPosition
            /\ StocksDaytradingAt(LoadPremium(ohlc_file), JquantsUnit, i).status # "NoChange"}

\* C23: in push_2 a date of [from, to] without a bar or with too little
\* history gives no record and does not end the loop: the loop runs to `to`,
\* every later date that gives a record has it in the list, and the records
\* are in ascending order of date.
C23_SkippedDatesNotFatal ==
    mode = "daytrading" =>
        /\ \A k \in 1..Len(data) : data[k].analyzed_at \in KeptDates
        /\ \A k \in 1..Len(data) : \A l \in 1..Len(data) :
               k < l => data[k].analyzed_at < data[l].analyzed_at
        /\ dpc \in {"loaded", "reported", "panic"} =>
               /\ loop_date = ToDate + 1
               /\ \A d \in KeptDates : \E k \in 1..Len(data) : data[k].analyzed_at = d

\* C23 witness: the loop has run over a first date with too little history
\* and a date without a bar, and holds a record of a later date
C23_Witness ==
    /\ mode = "daytrading"
    /\ dpc = "loaded"
    /\ DatedAt(FromDate) = {MinPosition - 1}
    /\ DatedAt(MinPosition + 1) = {}
    /\ \E k \in 1..Len(data) : data[k].analyzed_at = MinPosition + 2

\* ------------------------------------------------------ the anchors tried
\* the places of the collection that hold the record of row r for offset d
RecordsAt(r, d) ==
    {k \in 1..Len(backtest_analyzer_vec) :
        /\ backtest_analyzer_vec[k].code = r
        /\ backtest_analyzer_vec[k].backtest_analyzer.date = d + Lookback60 - 1}

\* the offsets of row r at which the file has the 82 bars asked for
ValidDays(r) ==
    IF nikkei225[r].load = "ok"
    THEN {d \in 0..nikkei225[r].bars.len : nikkei225[r].bars.len - d >= MinBarsAfterDay}
    ELSE {}

\* C24 as stated: when the driver has finished, every offset of every
\* instrument that has the history and the forward bars has exactly one record.
C24_EveryValidDay ==
    bpc = "Ok" =>
        \A r \in 1..Len(nikkei225) : \A d \in ValidDays(r) :
            Cardinality(RecordsAt(r, d)) = 1

\* C24: when the driver has finished, the offsets of an instrument that have
\* a record are the multiples of 9 up to 1200 at which the file has the bars
\* asked for, each with exactly one record; no other offset is tried.
C24_EveryNinthValidDay ==
    bpc = "Ok" =>
        \A r \in 1..Len(nikkei225) : \A d \in 0..nikkei225[r].bars.len :
            Cardinality(RecordsAt(r, d)) =
                IF d \in ValidDays(r) /\ d % StepBy = 0 /\ d <= StepMax THEN 1 ELSE 0

\* C24 witness: the driver has finished with the records of offsets 0 and 9
\* of an instrument whose offsets 1 to 8 are valid too
C24_Witness ==
    /\ bpc = "Ok"
    /\ ValidDays(1) = 0..StepBy
    /\ RecordsAt(1, 0) # {} /\ RecordsAt(1, StepBy) # {} /\ RecordsAt(1, 1) = {}

\* C28: in backtesting_to_json the offset StocksBacktest::new is called with
\* never exceeds the length of the file, so raw_ohlc.len() - day does not
\* underflow, and every record comes from an offset with day + 81 <= len, so
\* no slice of BacktestAnalyzer::new is out of bounds.
C28_NoUnderflowNoBadSlice ==
    /\ (InLoop /\ nikkei225[row].load = "ok") => step <= nikkei225[row].bars.len
    /\ \A k \in 1..Len(backtest_analyzer_vec) :
           (backtest_analyzer_vec[k].backtest_analyzer.date - (Lookback60 - 1)) + FutureLen20
               <= nikkei225[backtest_analyzer_vec[k].code].bars.len

\* C28 witness: the inner loop was left at offset 18 of a 91-bar file, 9 bars
\* short of a third anchor, after two records
C28_Witness ==
    /\ row = 2 /\ step = 0 /\ bpc = "loop"
    /\ nikkei225[1].load = "ok"
    /\ nikkei225[1].bars.len = MinBarsAfterDay + StepBy
    /\ Len(backtest_analyzer_vec) = 2

\* ------------------------------------------------------ the gap adjustment
MaxInt(a, b) == IF a > b THEN a ELSE b
MinInt(a, b) == IF a < b THEN a ELSE b

\* what C25 says of the adjusted copy g of the window w
AdjustedAsStated(w, g) ==
    /\ g[1] = w[1]
    /\ \A i \in 2..Len(w) :
           /\ g[i].open = w[i - 1].close
           /\ g[i].low <= g[i].open /\ g[i].open <= g[i].high
           /\ g[i].high = MaxInt(w[i].high, g[i].open)
           /\ g[i].low = MinInt(w[i].low, g[i].open)
           /\ g[i].close = w[i].close
           /\ g[i].date = w[i].date
    /\ (\A i \in 1..Len(w) : BarInvariant(w[i])) => \A i \in 1..Len(w) : BarInvariant(g[i])

\* C25: in the gap-adjusted copy of the 60-bar window every bar after the
\* first opens at the close of the bar before it, has low <= open <= high,
\* high = max(original high, new open), low = min(original low, new open)
\* and its close unchanged, the first bar is unchanged, and the adjusted bars
\* of a window of valid bars satisfy the Bar invariant.
C25_GapAdjustedBars ==
    pc = "Ok" => AdjustedAsStated(TestingOhlc60, GapAdjusted(TestingOhlc60))

\* C25 witness: a window of valid bars in which the adjustment widens the high
\* of one bar and the low of another
C25_Witness ==
    /\ pc = "Ok"
    /\ LET w == TestingOhlc60
           g == GapAdjusted(TestingOhlc60)
       IN  /\ \A i \in 1..Len(w) : BarInvariant(w[i])
           /\ \E i \in 2..Len(w) : g[i].high > w[i].high
           /\ \E i \in 2..Len(w) : g[i].low < w[i].low

\* ------------------------------------------------------ the TOPIX regimes
\* the number of places date d has in the list `name` of the built lists
PlacesIn(name, d) ==
    Cardinality({k \in 1..Len(topix_list[name]) : topix_list[name][k] = d})

SixLists ==
    {"strong_positive", "moderate_positive", "mild_positive",
     "mild_negative", "moderate_negative", "strong_negative"}

\* C26: in TopixDailyWindowList2 every date whose window_diff is not 1.0 has
\* exactly one place in the six lists together, and a date whose window_diff
\* is 1.0 has none.
C26_TertileListsPartition ==
    xpc = "tertile" =>
        \A d \in 1..Len(topix_data) :
            /\ topix_data[d] # 1000 =>
                   Cardinality({n \in SixLists : PlacesIn(n, d) = 1}) = 1
                   /\ Cardinality({n \in SixLists : PlacesIn(n, d) = 0}) = 5
            /\ topix_data[d] = 1000 => \A n \in SixLists : PlacesIn(n, d) = 0

\* C26 witness: lists built from a file with a flat day, two rising days of
\* different size and a falling day
C26_Witness ==
    /\ xpc = "tertile"
    /\ topix_data = <<1000, 1005, 1010, 990>>
    /\ topix_list.mild_positive = <<2>>
    /\ topix_list.moderate_positive = <<3>>
    /\ topix_list.mild_negative = <<4>>

\* C27: in TopixDailyWindowList every date with window_diff > 1.0 has exactly
\* one place in strong_positive and mild_positive together, and every date
\* with window_diff < 1.0 exactly one in strong_negative and mild_negative.
C27_MedianListsCover ==
    xpc = "median" =>
        \A d \in 1..Len(topix_data) :
            /\ topix_data[d] > 1000 =>
                   PlacesIn("strong_positive", d) + PlacesIn("mild_positive", d) = 1
            /\ topix_data[d] < 1000 =>
                   PlacesIn("strong_negative", d) + PlacesIn("mild_negative", d) = 1

\* ------------------------------------------------ fetch_nikkei225_db
\* A run of fetch_nikkei225_db calls first_fetch for the trading calendar and
\* then walks back from the day of the clock, one date per iteration, storing
\* the quotes of the roster for every trading day that has no row yet.  The
\* runs follow one another on the same table; the answers of the J-Quants
\* server, of the files and of the database are inputs.
MaxDate == 2
MaxRuns == 3
DaysBack == 2
LastHourBefore == 15

\* the codes of the roster, in the order of the file
Roster == <<1, 2>>
RosterCodes == {Roster[k] : k \in 1..Len(Roster)}

StatusCodes == {"OK", "UNAUTHORIZED", "BAD_REQUEST", "other"}
Clocks == [date : 1..MaxDate, hour : {LastHourBefore, LastHourBefore + 1}]
Calendars == SUBSET (1..MaxDate)
\* the quotes of one date: for each code of the roster, whether the answer
\* has no quote of it, one with a missing price, or a complete one
DailyQuotesAnswers == [RosterCodes -> {"absent", "null", "complete"}]

\* what TradingCalender::fetch returns for an answer of the server
TradingCalenderFetch(status, parsed) ==
    CASE status = "OK" -> IF parsed THEN "Ok" ELSE "Anyhow"
      [] status = "UNAUTHORIZED" -> "IdTokenExpired"
      [] OTHER -> "Anyhow"

\* what IdToken::fetch_and_save_to_file returns for an answer of the server
IdTokenFetch(status, saved) ==
    CASE status = "OK" -> IF saved THEN "Ok" ELSE "Anyhow"
      [] status = "BAD_REQUEST" -> "RefreshTokenExpired"
      [] OTHER -> "Anyhow"

\* what RefreshToken::fetch_and_save_to_file returns
RefreshTokenFetch(status, saved) ==
    IF status = "OK" /\ saved THEN "Ok" ELSE "Anyhow"

\* the arms of the matches of first_fetch
AfterCalendar(at, result) ==
    CASE result = "Ok" -> "Ok"
      [] result = "IdTokenExpired" /\ at = "calendar_1" -> "id_token_1"
      [] OTHER -> "Err"

AfterIdToken_LoginOnAnyError(at, result) ==
    CASE result = "Ok" -> "calendar_2"
      [] at = "id_token_1" -> "refresh_token"
      [] OTHER -> "Err"

AfterIdToken(at, result) ==
    CASE result = "Ok" -> "calendar_2"
      [] result = "RefreshTokenExpired" /\ at = "id_token_1" -> "refresh_token"
      [] OTHER -> "Err"

AfterRefreshToken(result) ==
    IF result = "Ok" THEN "id_token_2" ELSE "Err"

Sent(request, result) == [request |-> request, result |-> result]

InitFetch ==
    /\ BaseIdle /\ AsyncIdle /\ TopixIdle
    /\ f_requests = <<>>
    /\ fpc = "calendar_1"
    /\ stocks_ohlc = <<>>
    /\ now \in Clocks
    /\ trading_calender = {}
    /\ i_back = 0
    /\ visited = <<>>
    /\ runs = 1
    /\ npc = "first_fetch"

\* TradingCalender::fetch_default, at either of its places in first_fetch
FirstFetchCalendar ==
    /\ npc = "first_fetch"
    /\ fpc \in {"calendar_1", "calendar_2"}
    /\ \E status \in StatusCodes, parsed \in BOOLEAN, calendar \in Calendars :
         LET result == TradingCalenderFetch(status, parsed) IN
         /\ f_requests' = Append(f_requests, Sent("calendar", result))
         /\ fpc' = AfterCalendar(fpc, result)
         /\ trading_calender' = IF result = "Ok" THEN calendar ELSE {}
    /\ UNCHANGED <<stocks_ohlc, now, i_back, visited, runs, npc, notFetch>>

\* IdToken::fetch_and_save_to_file: without its configuration it returns
\* before any request
FirstFetchIdToken ==
    /\ npc = "first_fetch"
    /\ fpc \in {"id_token_1", "id_token_2"}
    /\ \/ /\ fpc' = "Err"
          /\ UNCHANGED f_requests
       \/ \E status \in StatusCodes, saved \in BOOLEAN :
            LET result == IdTokenFetch(status, saved) IN
            /\ f_requests' = Append(f_requests, Sent("id_token", result))
            /\ fpc' = AfterIdToken(fpc, result)
    /\ UNCHANGED <<dbVars, notFetch>>

\* RefreshToken::fetch_and_save_to_file, the login with mail and password
FirstFetchRefreshToken ==
    /\ npc = "first_fetch"
    /\ fpc = "refresh_token"
    /\ \/ /\ fpc' = "Err"
          /\ UNCHANGED f_requests
       \/ \E status \in StatusCodes, saved \in BOOLEAN :
            LET result == RefreshTokenFetch(status, saved) IN
            /\ f_requests' = Append(f_requests, Sent("refresh_token", result))
            /\ fpc' = AfterRefreshToken(result)
    /\ UNCHANGED <<dbVars, notFetch>>

\* the day the loop starts at
IFrom(clock) == IF clock.hour <= LastHourBefore THEN 1 ELSE 0

\* first_fetch(client).await?, then the roster, the configuration and the
\* database, each of them with `?`
FetchOpen ==
    /\ npc = "first_fetch"
    /\ fpc \in {"Ok", "Err"}
    /\ \E opened \in BOOLEAN :
         IF fpc = "Ok" /\ opened
         THEN /\ npc' = "loop"
              /\ i_back' = IFrom(now)
         ELSE /\ npc' = "Err"
              /\ UNCHANGED i_back
    /\ UNCHANGED <<firstFetchVars, stocks_ohlc, now, trading_calender,
                   visited, runs, notFetch>>

Date == now.date - i_back
is_date_trading_day(date) == date \in trading_calender
select_by_date(date) ==
    SelectSeq(stocks_ohlc, LAMBDA record : record.date = date)

AlreadyFetched_Never(records) == FALSE

AlreadyFetched(records) == records # <<>>

Did(date, did) == [date |-> date, did |-> did]

\* the loop has gone through its range of days
FetchLoopEnd ==
    /\ npc = "loop"
    /\ i_back >= DaysBack
    /\ npc' = "Ok"
    /\ UNCHANGED <<firstFetchVars, stocks_ohlc, now, trading_calender,
                   i_back, visited, runs, notFetch>>

\* a holiday: continue
FetchHoliday ==
    /\ npc = "loop"
    /\ i_back < DaysBack
    /\ ~is_date_trading_day(Date)
    /\ visited' = Append(visited, Did(Date, "holiday"))
    /\ i_back' = i_back + 1
    /\ UNCHANGED <<firstFetchVars, stocks_ohlc, now, trading_calender,
                   runs, npc, notFetch>>

\* select_by_date fails (`?`), or finds rows of the date: break
FetchSelect ==
    /\ npc = "loop"
    /\ i_back < DaysBack
    /\ is_date_trading_day(Date)
    /\ \/ /\ visited' = Append(visited, Did(Date, "select_error"))
          /\ npc' = "Err"
       \/ /\ AlreadyFetched(select_by_date(Date))
          /\ visited' = Append(visited, Did(Date, "already"))
          /\ npc' = "Ok"
    /\ UNCHANGED <<firstFetchVars, stocks_ohlc, now, trading_calender,
                   i_back, runs, notFetch>>

\* the rows nikkei225.iter().for_each inserts: the codes in the order of the
\* roster up to the first one without a complete quote, where expect panics;
\* an insert that fails is logged and leaves no row
Missing(daily_quotes) ==
    {k \in 1..Len(Roster) : daily_quotes[Roster[k]] # "complete"}
FirstMissing(daily_quotes) ==
    IF Missing(daily_quotes) = {} THEN Len(Roster) + 1
    ELSE CHOOSE k \in Missing(daily_quotes) :
           \A other \in Missing(daily_quotes) : k <= other
Inserted(daily_quotes, date, failed) ==
    LET reached == SubSeq(Roster, 1, FirstMissing(daily_quotes) - 1)
        kept == SelectSeq(reached, LAMBDA code : code \notin failed)
    IN [k \in 1..Len(kept) |-> [code |-> kept[k], date |-> date]]

IsEmpty(daily_quotes) == \A code \in RosterCodes : daily_quotes[code] = "absent"

\* DailyQuotes::fetch_by_date of a trading day without rows, and what follows
FetchByDate ==
    /\ npc = "loop"
    /\ i_back < DaysBack
    /\ is_date_trading_day(Date)
    /\ ~AlreadyFetched(select_by_date(Date))
    /\ \/ /\ visited' = Append(visited, Did(Date, "fetch_error"))
          /\ npc' = "Err"
          /\ UNCHANGED <<stocks_ohlc, i_back>>
       \/ /\ visited' = Append(visited, Did(Date, "no_data"))
          /\ i_back' = i_back + 1
          /\ UNCHANGED <<stocks_ohlc, npc>>
       \/ \E daily_quotes \in DailyQuotesAnswers, failed \in SUBSET RosterCodes :
            /\ ~IsEmpty(daily_quotes)
            /\ stocks_ohlc' = stocks_ohlc \o Inserted(daily_quotes, Date, failed)
            /\ IF Missing(daily_quotes) = {}
               THEN /\ visited' = Append(visited, Did(Date, "fetched"))
                    /\ i_back' = i_back + 1
                    /\ UNCHANGED npc
               ELSE /\ visited' = Append(visited, Did(Date, "panic"))
                    /\ npc' = "panic"
                    /\ UNCHANGED i_back
    /\ UNCHANGED <<firstFetchVars, now, trading_calender, runs, notFetch>>

\* the next run, at the same day or a later one
FetchNikkei225Db ==
    /\ npc \in {"Ok", "Err", "panic"}
    /\ runs < MaxRuns
    /\ \E clock \in Clocks :
         /\ clock.date >= now.date
         /\ now' = clock
    /\ f_requests' = <<>>
    /\ fpc' = "calendar_1"
    /\ trading_calender' = {}
    /\ i_back' = 0
    /\ visited' = <<>>
    /\ runs' = runs + 1
    /\ npc' = "first_fetch"
    /\ UNCHANGED <<stocks_ohlc, notFetch>>

NextFetch ==
    \/ FirstFetchCalendar
    \/ FirstFetchIdToken
    \/ FirstFetchRefreshToken
    \/ FetchOpen
    \/ FetchLoopEnd
    \/ FetchHoliday
    \/ FetchSelect
    \/ FetchByDate
    \/ FetchNikkei225Db

SpecFetch == InitFetch /\ [][NextFetch]_vars

\* ------------------------------------------------------------ C29
RequestsOf(request) ==
    {k \in 1..Len(f_requests) : f_requests[k].request = request}

\* an answer after which first_fetch goes on to the next kind of request: the
\* first calendar request answered IdTokenExpired, the first refresh of the
\* ID token answered RefreshTokenExpired
GoesOn(k) ==
    \/ /\ f_requests[k].request = "calendar"
       /\ f_requests[k].result = "IdTokenExpired"
       /\ \A j \in RequestsOf("calendar") : k <= j
    \/ /\ f_requests[k].request = "id_token"
       /\ f_requests[k].result = "RefreshTokenExpired"
       /\ \A j \in RequestsOf("id_token") : k <= j

\* C29: one call of first_fetch sends at most two calendar requests, at most
\* two refreshes of the ID token and at most one login; the login comes only
\* after a refresh of the ID token answered RefreshTokenExpired, a refresh of
\* the ID token only after a calendar request answered IdTokenExpired, and
\* after any other error the call has returned Err with no further request.
C29_FirstFetchBounded ==
    /\ Cardinality(RequestsOf("calendar")) <= 2
    /\ Cardinality(RequestsOf("id_token")) <= 2
    /\ Cardinality(RequestsOf("refresh_token")) <= 1
    /\ \A k \in RequestsOf("refresh_token") :
         \E j \in RequestsOf("id_token") :
           j < k /\ f_requests[j].result = "RefreshTokenExpired"
    /\ \A k \in RequestsOf("id_token") :
         \E j \in RequestsOf("calendar") :
           j < k /\ f_requests[j].result = "IdTokenExpired"
    /\ \A k \in 1..Len(f_requests) :
         f_requests[k].result # "Ok" /\ ~GoesOn(k)
           => k = Len(f_requests) /\ fpc = "Err"
    /\ fpc \in {"Ok", "Err"} /\ f_requests # <<>>
         => f_requests[Len(f_requests)].result = "Ok" \/ fpc = "Err"

\* the longest call: both tokens had expired and the login renewed them
C29_Witness ==
    /\ fpc = "Ok"
    /\ Len(f_requests) = 5
    /\ [k \in 1..5 |-> f_requests[k].request]
         = <<"calendar", "id_token", "refresh_token", "id_token", "calendar">>

\* ------------------------------------------------------------ C30
RowsOf(table, date) == {k \in 1..Len(table) : table[k].date = date}
Fetching == {"fetch_error", "no_data", "fetched", "panic"}

StoredOnce ==
    \A j, k \in 1..Len(stocks_ohlc) :
      j # k => stocks_ohlc[j] # stocks_ohlc[k]
MostRecentFirst ==
    \A k \in 1..Len(visited) - 1 : visited[k].date > visited[k + 1].date
StopsAtStoredDay ==
    \A k \in 1..Len(visited) :
      /\ visited[k].did = "already"
           => k = Len(visited) /\ npc = "Ok"
                /\ RowsOf(stocks_ohlc, visited[k].date) # {}
      /\ k < Len(visited)
           => visited[k].did \in {"holiday", "no_data", "fetched"}

\* a step that sends fetch_by_date for a date, or inserts rows of a date,
\* finds no row of that date in the table
NotAgain ==
    /\ Len(visited') = Len(visited) + 1
         /\ visited'[Len(visited')].did \in Fetching
         => RowsOf(stocks_ohlc, visited'[Len(visited')].date) = {}
    /\ \A k \in 1..Len(stocks_ohlc') :
         k > Len(stocks_ohlc)
           => RowsOf(stocks_ohlc, stocks_ohlc'[k].date) = {}

\* C30: over the runs of fetch_nikkei225_db on one table, whether they end
\* with Ok, an error or a panic, a date that has a row is neither fetched nor
\* inserted again and no (code, date) is stored twice; a run visits the dates
\* from the most recent backwards and ends at the first trading day that has
\* rows.
C30_StoredDatesNotFetchedAgain ==
    /\ [](StoredOnce /\ MostRecentFirst /\ StopsAtStoredDay)
    /\ [][NotAgain]_vars

\* a later run stored the newest day and stopped at a day of which an earlier
\* run, ended part-way, had left the row of a single code
C30_Witness ==
    /\ runs >= 2
    /\ npc = "Ok"
    /\ Len(visited) >= 2
    /\ visited[1].did = "fetched"
    /\ visited[Len(visited)].did = "already"
    /\ Cardinality(RowsOf(stocks_ohlc, visited[Len(visited)].date)) = 1

====
